---- MODULE Spec2Model ----
(***************************************************************************)
(* A model of the web-scraper-toolkit: the two proxy rotators, the         *)
(* fingerprint table, the Anti-Captcha retry loops, the stealth browser    *)
(* controller with its detection heuristics, and the page archiver.        *)
(* Each component has its own specification (SpecRotator, SpecSmart, ...)  *)
(* over the shared variables; the components a specification does not      *)
(* exercise stay in their constructed state.                               *)
(*                                                                         *)
(* Conventions.  Python's None, a returned value and a raised exception    *)
(* are records tagged by "kind".  Indices into Python lists are 0-based as *)
(* in the source; Item(s, i) reads s[i].  Wall-clock time is the variable  *)
(* now, advanced by the Tick action.                                       *)
(***************************************************************************)
EXTENDS Integers, Sequences, FiniteSets, TLC

(***************************************************************************)
(* Bounds of the model.                                                    *)
(***************************************************************************)
MaxPool == 3          \* longest proxy pool
MaxAttempts == 3      \* largest max_attempts given to solve_*
MaxStamps == 3        \* fingerprints created in a run of the fingerprint table
MaxElapsed == 61      \* the clock runs from StartTime to StartTime + MaxElapsed
StartTime == 1000     \* time.time() when the model starts

(***************************************************************************)
(* Python values.                                                          *)
(***************************************************************************)
None == [kind |-> "None"]
Return(v) == [kind |-> "return", value |-> v]
Raise(e) == [kind |-> "raise", exc |-> e]
Str(v) == [kind |-> "str", value |-> v]
\* bool(x) of None or a string
Truthy(x) == x.kind = "str" /\ x.value # ""
NoCall == [kind |-> "nocall"]

\* s[i] of a Python list, for 0 <= i < len(s)
Item(s, i) == s[i + 1]
\* the indices of a list: range(len(s))
Indices(s) == 0 .. (Len(s) - 1)
\* Seq(S) up to a length
SeqUpTo(S, n) == UNION {[1 .. k -> S] : k \in 0 .. n}
\* s with its element at (0-based) index i removed: list.pop(i)
Pop(s, i) == [k \in 1 .. (Len(s) - 1) |-> IF k <= i THEN s[k] ELSE s[k + 1]]
Min(a, b) == IF a <= b THEN a ELSE b

VARIABLES
  now,                \* time.time()
  \* ---- CustomProxyRotator (proxy_handlers/custom.py)
  proxies,            \* self.proxies
  current_index,      \* self.current_index
  last_rotation,      \* self.last_rotation
  rotation_interval,  \* self.rotation_interval
  failed_proxies,     \* self.failed_proxies
  rot_call,           \* the last call on the rotator: its name, arguments,
                      \* outcome and the state it started from
  \* ---- SmartproxyRotator (proxy_handlers/smartproxy.py)
  sp_config,          \* self.username, password, endpoint, port, country
  sp_session_id,      \* self.session_id
  sp_last_rotation,   \* self.last_rotation
  sp_rotation_interval, \* self.rotation_interval
  sp_call,            \* the last call on the rotator and the state it started from
  sp_ids_unforced,    \* session ids returned since the last forced call
  sp_ids_window,      \* session ids returned within the interval since the last call
                      \* that was forced or came after the interval
  \* ---- AntiCaptchaSolver (captcha_solvers/anticaptcha.py)
  solver_call,        \* the last solve_* call: its arguments, what each attempt met,
                      \* the events of the run in order and what it returned
  \* ---- fingerprint table (playwright-stealth/fingerprint_manager.py)
  fp_file,            \* the file at fingerprints_file: absent, unparsable, or JSON text
  fp_call,            \* the last get_fingerprint_for_domain call
  fp_prev,            \* the call before it
  \* ---- StealthBrowser (playwright-stealth/stealth_browser.py, utils.py)
  br_handles,         \* which of self.page, context, browser, playwright are set
  br_closed,          \* close() has been called
  br_doc,             \* the document the page shows
  br_call,            \* the last call on the browser: its name, what the page
                      \* operations under it did, and what it returned or raised
  \* ---- save_page_complete (playwright-stealth/page_saver.py)
  saver,              \* the running or last save: where it is, html_content, the
                      \* matches still to visit, the downloads made, the file
                      \* written and the value returned
  san_call,           \* the last sanitize_filename call: its argument and result
  \* ---- the orchestration entry point (examples/complete_solution.py)
  main_run            \* a run of main(): where it is, whether a solver was set up,
                      \* the calls of browser.close() and save_complete made, what
                      \* was detected and solved, and how the process ended

rotVars == <<proxies, current_index, last_rotation, rotation_interval,
             failed_proxies, rot_call>>
fpVars == <<fp_file, fp_call, fp_prev>>
brVars == <<br_handles, br_closed, br_doc, br_call>>
spVars == <<sp_config, sp_session_id, sp_last_rotation, sp_rotation_interval,
            sp_call, sp_ids_unforced, sp_ids_window>>

(***************************************************************************)
(* The clock.  Steps of 30 and 61 seconds put a call exactly on the        *)
(* default interval (60), inside it and past it.                           *)
(***************************************************************************)

Tick ==
  \E d \in {30, 61} :
    /\ now + d <= StartTime + MaxElapsed
    /\ now' = now + d

(***************************************************************************)
(* CustomProxyRotator                                                      *)
(***************************************************************************)
\* custom.py:19
RotationIntervalDefault == 60

\* arguments given to add_proxy and to the constructor: two well-formed
\* descriptors and a dictionary without a 'server' key
ValidProxies == {[server |-> "http://proxy1:8080"], [server |-> "http://proxy2:8080"]}
ProxyArgs == ValidProxies \cup {[username |-> "user1"]}
\* arguments given to set_rotation_interval
IntervalArgs == {30, 60}

\* isinstance(proxy, dict) and 'server' in proxy
IsValidProxy(proxy) == "server" \in DOMAIN proxy

\* list.index(x): the first index holding a value equal to x
ListIndex(s, x) == CHOOSE i \in Indices(s) : Item(s, i) = x /\ \A j \in 0 .. (i - 1) : Item(s, j) # x

\* [p for i, p in enumerate(self.proxies) if i not in self.failed_proxies],
\* as the list of the indices kept (the list of entries is WorkingProxies)
WorkingIndices(ps, failed) == {i \in Indices(ps) : i \notin failed}

RECURSIVE FilterList(_, _, _)
FilterList(ps, failed, i) ==
  IF i >= Len(ps) THEN <<>>
  ELSE (IF i \in failed THEN <<>> ELSE <<Item(ps, i)>>) \o FilterList(ps, failed, i + 1)

WorkingProxies(ps, failed) == FilterList(ps, failed, 0)

\* the rotation gate of get_proxy
NeedRotation(force_new, idx, t, last, interval) ==
  force_new \/ idx = -1 \/ (t - last) > interval

\* "if not self.proxies: return None", mutated to give up when no working
\* proxy is left
NoProxiesNoWorking(ps, failed) == WorkingProxies(ps, failed) = <<>>

\* get_proxy without its check of the empty pool
NoProxiesUnchecked(ps, failed) == FALSE

\* if not self.proxies: return None
NoProxies(ps, failed) == ps = <<>>

\* self.proxies[self.current_index]: Python reads a negative index from the
\* end and raises IndexError out of range
Subscript(ps, i) ==
  IF i >= 0 /\ i < Len(ps) THEN Return(Item(ps, i))
  ELSE IF i < 0 /\ -i <= Len(ps) THEN Return(Item(ps, Len(ps) + i))
  ELSE Raise("IndexError")

\* get_proxy's outcomes from a state: each is the new current_index,
\* last_rotation and failed_proxies and what the call returns or raises
GetProxyOutcomes(ps, idx, last, interval, failed, force_new, t) ==
  IF NoProxies(ps, failed)
  THEN {[idx |-> idx, last |-> last, failed |-> failed, ret |-> None]}
  ELSE IF NeedRotation(force_new, idx, t, last, interval)
  THEN LET working == WorkingProxies(ps, failed)
           failed2 == IF working = <<>> THEN {} ELSE failed
           working2 == IF working = <<>> THEN ps ELSE working
       IN IF working2 # <<>>
          THEN {[idx |-> ListIndex(ps, working2[k]), last |-> t, failed |-> failed2,
                 ret |-> Subscript(ps, ListIndex(ps, working2[k]))] : k \in 1 .. Len(working2)}
          ELSE {[idx |-> idx, last |-> last, failed |-> failed2, ret |-> Subscript(ps, idx)]}
  ELSE {[idx |-> idx, last |-> last, failed |-> failed, ret |-> Subscript(ps, idx)]}

\* the record of a call: the state it started from and what it did
RotCall(op, force_new, ret) ==
  [op |-> op, force_new |-> force_new, ret |-> ret,
   pre_failed |-> failed_proxies, pre_index |-> current_index,
   pre_elapsed |-> now - last_rotation, pre_interval |-> rotation_interval]

RotatorInit ==
  /\ proxies \in SeqUpTo(ValidProxies, Min(MaxPool, 2))
  /\ current_index = -1
  /\ last_rotation = 0
  /\ rotation_interval = RotationIntervalDefault
  /\ failed_proxies = {}
  /\ rot_call = [op |-> "init", force_new |-> FALSE, ret |-> NoCall,
                 pre_failed |-> {}, pre_index |-> -1,
                 pre_elapsed |-> 0, pre_interval |-> RotationIntervalDefault]

RotatorIdle ==
  /\ proxies = <<>>
  /\ current_index = -1
  /\ last_rotation = 0
  /\ rotation_interval = RotationIntervalDefault
  /\ failed_proxies = {}
  /\ rot_call = [op |-> "init", force_new |-> FALSE, ret |-> NoCall,
                 pre_failed |-> {}, pre_index |-> -1,
                 pre_elapsed |-> 0, pre_interval |-> RotationIntervalDefault]

add_proxy ==
  \E proxy \in ProxyArgs :
    /\ Len(proxies) < MaxPool
    /\ proxies' = IF IsValidProxy(proxy) THEN Append(proxies, proxy) ELSE proxies
    /\ rot_call' = RotCall("add_proxy", FALSE,
                           IF IsValidProxy(proxy) THEN None ELSE Raise("ValueError"))
    /\ UNCHANGED <<current_index, last_rotation, rotation_interval, failed_proxies>>

GetProxyCall(name, force_new) ==
  \E o \in GetProxyOutcomes(proxies, current_index, last_rotation, rotation_interval,
                            failed_proxies, force_new, now) :
    /\ current_index' = o.idx
    /\ last_rotation' = o.last
    /\ failed_proxies' = o.failed
    /\ rot_call' = RotCall(name, force_new, o.ret)
    /\ UNCHANGED <<proxies, rotation_interval>>

get_proxy == \E force_new \in BOOLEAN : GetProxyCall("get_proxy", force_new)

\* return self.get_proxy(force_new=True)
rotate_proxy == GetProxyCall("rotate_proxy", TRUE)

mark_proxy_failed ==
  /\ failed_proxies' = IF current_index >= 0 THEN failed_proxies \cup {current_index}
                       ELSE failed_proxies
  /\ rot_call' = RotCall("mark_proxy_failed", FALSE, None)
  /\ UNCHANGED <<proxies, current_index, last_rotation, rotation_interval>>

reset_failed_proxies ==
  /\ failed_proxies' = {}
  /\ rot_call' = RotCall("reset_failed_proxies", FALSE, None)
  /\ UNCHANGED <<proxies, current_index, last_rotation, rotation_interval>>

set_rotation_interval ==
  \E seconds \in IntervalArgs :
    /\ rotation_interval' = seconds
    /\ rot_call' = RotCall("set_rotation_interval", FALSE, None)
    /\ UNCHANGED <<proxies, current_index, last_rotation, failed_proxies>>

\* arguments given to remove_proxy: the servers of the pool's descriptors and
\* one that no descriptor has
ServerArgs == {p.server : p \in ValidProxies} \cup {"http://unknown:8080"}

\* for i, proxy in enumerate(self.proxies): if proxy['server'] == server:
\* the first index whose descriptor has the server, -1 when there is none
RECURSIVE FirstWithServer(_, _, _)
FirstWithServer(ps, server, i) ==
  IF i >= Len(ps) THEN -1
  ELSE IF Item(ps, i).server = server THEN i
  ELSE FirstWithServer(ps, server, i + 1)

\* remove_proxy(server): pops the first descriptor with the server; nothing
\* else of the rotator is touched
remove_proxy ==
  \E server \in ServerArgs :
    LET i == FirstWithServer(proxies, server, 0)
    IN /\ proxies' = IF i >= 0 THEN Pop(proxies, i) ELSE proxies
       /\ rot_call' = RotCall("remove_proxy", FALSE, Return(i >= 0))
       /\ UNCHANGED <<current_index, last_rotation, rotation_interval, failed_proxies>>

\* get_proxy_count()
get_proxy_count(ps) == Len(ps)

\* get_working_proxy_count()
get_working_proxy_count(ps, failed) == Len(ps) - Cardinality(failed)

(***************************************************************************)
(* SmartproxyRotator                                                       *)
(***************************************************************************)
\* smartproxy.py:27
SpRotationIntervalDefault == 60
\* smartproxy.py:43: random.randint(10000, 99999)
SessionLow == 10000
SessionHigh == 99999
\* the draws of random.randint followed: both ends and one inside
SessionDraws == {SessionLow, SessionLow + 1, SessionHigh}

\* constructor arguments: without and with a country
SpConfigs ==
  {[username |-> "user", password |-> "pw", endpoint |-> "gate.smartproxy.com",
    port |-> 7000, country |-> c] : c \in {None, Str("us")}}

\* the rotation gate of get_proxy, with >= for >
SpNeedRotationAtInterval(force_new, sid, t, last, interval) ==
  force_new \/ sid = None \/ (t - last) >= interval

\* the rotation gate of get_proxy, without force_new
SpNeedRotationIgnoresForce(force_new, sid, t, last, interval) ==
  sid = None \/ (t - last) > interval

\* the rotation gate of get_proxy
SpNeedRotation(force_new, sid, t, last, interval) ==
  force_new \/ sid = None \/ (t - last) > interval

\* the URL of get_proxy without its country branch
ProxyUrlWithoutCountry(cfg, sid) ==
  <<"http://", cfg.username, "-session-", sid.value,
    ":", cfg.password, "@", cfg.endpoint, ":", ToString(cfg.port)>>

\* the f-strings of get_proxy, as the sequence of their parts
ProxyUrl(cfg, sid) ==
  IF Truthy(cfg.country)
  THEN <<"http://", cfg.username, "-country-", cfg.country.value, "-session-", sid.value,
         ":", cfg.password, "@", cfg.endpoint, ":", ToString(cfg.port)>>
  ELSE <<"http://", cfg.username, "-session-", sid.value,
         ":", cfg.password, "@", cfg.endpoint, ":", ToString(cfg.port)>>

Descriptor(cfg, sid) ==
  [server |-> ProxyUrl(cfg, sid),
   username |-> <<cfg.username, "-session-", sid.value>>,
   password |-> cfg.password]

SpCall(op, force_new, ret) ==
  [op |-> op, force_new |-> force_new, ret |-> ret, pre_session |-> sp_session_id,
   pre_elapsed |-> now - sp_last_rotation, pre_interval |-> sp_rotation_interval]

\* a call made without force while the time since the last rotation does not
\* exceed the interval
WithinInterval(force_new) ==
  ~force_new /\ (now - sp_last_rotation) <= sp_rotation_interval

SmartInitWith(cfgs) ==
  /\ sp_config \in cfgs
  /\ sp_session_id = None
  /\ sp_last_rotation = 0
  /\ sp_rotation_interval = SpRotationIntervalDefault
  /\ sp_call = [op |-> "init", force_new |-> FALSE, ret |-> NoCall, pre_session |-> None,
                pre_elapsed |-> 0, pre_interval |-> SpRotationIntervalDefault]
  /\ sp_ids_unforced = {}
  /\ sp_ids_window = {}

SmartInit == SmartInitWith(SpConfigs)
SmartIdle == SmartInitWith({CHOOSE c \in SpConfigs : c.country = None})

SpGetProxyCall(name, force_new) ==
  \E n \in SessionDraws :
    LET rotate == SpNeedRotation(force_new, sp_session_id, now, sp_last_rotation,
                                 sp_rotation_interval)
        sid == IF rotate THEN Str(ToString(n)) ELSE sp_session_id
    IN /\ sp_session_id' = sid
       /\ sp_last_rotation' = IF rotate THEN now ELSE sp_last_rotation
       /\ sp_call' = SpCall(name, force_new, Return(Descriptor(sp_config, sid)))
       /\ sp_ids_unforced' = IF force_new THEN {}
                             ELSE IF WithinInterval(force_new) THEN sp_ids_unforced \cup {sid}
                             ELSE sp_ids_unforced
       /\ sp_ids_window' = IF WithinInterval(force_new) THEN sp_ids_window \cup {sid} ELSE {}
       /\ UNCHANGED <<sp_config, sp_rotation_interval>>

sp_get_proxy == \E force_new \in BOOLEAN : SpGetProxyCall("get_proxy", force_new)

\* return self.get_proxy(force_new=True)
sp_rotate_proxy == SpGetProxyCall("rotate_proxy", TRUE)

sp_set_rotation_interval ==
  \E seconds \in IntervalArgs :
    /\ sp_rotation_interval' = seconds
    /\ sp_call' = SpCall("set_rotation_interval", FALSE, None)
    /\ UNCHANGED <<sp_config, sp_session_id, sp_last_rotation, sp_ids_unforced, sp_ids_window>>

(***************************************************************************)
(* AntiCaptchaSolver: solve_recaptcha, solve_hcaptcha, solve_turnstile     *)
(***************************************************************************)
\* anticaptcha.py:55: wait_time = 5 * (attempt + 1)
WaitFactor == 5

\* the three methods and the solver class each constructs
SolverClass ==
  [solve_recaptcha |-> "recaptchaV2Proxyless", solve_hcaptcha |-> "hCaptchaProxyless",
   solve_turnstile |-> "TurnstileProxyless"]
SolveMethods == DOMAIN SolverClass

\* what an attempt can meet: the constructor raises, a set_* call raises,
\* solve_and_return_solution raises, it returns a falsy value (0, ""), or it
\* returns a token
Tokens == {"tokenA", "tokenB"}
AttemptOutcomes == {"raise_construct", "raise_configure", "raise_solve", "empty"} \cup Tokens

\* the events of one attempt up to its outcome: the attempt starts (the
\* print of line 31) and, unless building the solver raised, the remote
\* solver is invoked
AttemptEvents(attempt, outcome) ==
  IF outcome \in {"raise_construct", "raise_configure"}
  THEN << <<"attempt", attempt + 1>> >>
  ELSE << <<"attempt", attempt + 1>>, <<"solve", attempt + 1>> >>

\* how an attempt ends, with only the solver's construction inside the try
AttemptEndsUnguardedRun(outcome) ==
  IF outcome \in Tokens THEN "return"
  ELSE IF outcome = "raise_solve" THEN "propagate"
  ELSE "retry"

\* how an attempt ends: "if solution: return solution", else and
\* "except Exception" fall through to the retry
AttemptEnds(outcome) ==
  IF outcome \in Tokens THEN "return" ELSE "retry"

\* the wait before the retry, with the attempt number taken 0-based
WaitTimeZeroBased(attempt) == WaitFactor * attempt

\* wait_time = 5 * (attempt + 1)
WaitTime(attempt) == WaitFactor * (attempt + 1)

\* if attempt < max_attempts - 1
SleepsAfter(attempt, max_attempts) == attempt < max_attempts - 1

SolverInit ==
  solver_call = [pc |-> "idle", op |-> "init", max_attempts |-> 0, attempt |-> 0,
                 outcomes |-> <<>>, ret |-> NoCall, trace |-> <<>>]

\* a call of solve_recaptcha, solve_hcaptcha or solve_turnstile begins
solve_start ==
  \E method \in SolveMethods, max_attempts \in 0 .. MaxAttempts :
    /\ solver_call.pc \in {"idle", "done", "reported"}
    /\ solver_call' = [pc |-> "running", op |-> method, max_attempts |-> max_attempts,
                       attempt |-> 0, outcomes |-> <<>>, ret |-> NoCall,
                       trace |-> << <<SolverClass[method], 0>> >>]

\* one turn of "for attempt in range(max_attempts)": the try block, its
\* except, and the wait before the retry; past the last turn, return None
solve_attempt ==
  /\ solver_call.pc = "running"
  /\ LET attempt == solver_call.attempt
         max_attempts == solver_call.max_attempts
     IN IF attempt >= max_attempts
        THEN solver_call' = [solver_call EXCEPT !.pc = "done", !.ret = None]
        ELSE \E outcome \in AttemptOutcomes :
               LET tried == solver_call.trace \o AttemptEvents(attempt, outcome)
                   ends == AttemptEnds(outcome)
                   outcomes == Append(solver_call.outcomes, outcome)
               IN IF ends = "return"
                  THEN solver_call' = [solver_call EXCEPT !.pc = "done", !.ret = Return(outcome),
                                         !.outcomes = outcomes, !.trace = tried]
                  ELSE IF ends = "propagate"
                  THEN solver_call' = [solver_call EXCEPT !.pc = "done", !.ret = Raise("Exception"),
                                         !.outcomes = outcomes, !.trace = tried]
                  ELSE solver_call' = [solver_call EXCEPT
                                         !.attempt = attempt + 1, !.outcomes = outcomes,
                                         !.trace = IF SleepsAfter(attempt, max_attempts)
                                                   THEN Append(tried, <<"sleep", WaitTime(attempt)>>)
                                                   ELSE tried]

(***************************************************************************)
(* The fingerprint table                                                   *)
(***************************************************************************)
\* fingerprint_manager.py:7-54: the catalogs, user agents by browser and
\* platform
USER_AGENTS ==
  <<"Chrome/120 Windows", "Chrome/119 Windows", "Chrome/120 macOS", "Chrome/119 macOS",
    "Firefox/120 Windows", "Firefox/120 macOS", "Safari/17 macOS", "Edg/120 Windows">>
VIEWPORTS ==
  <<[width |-> 1920, height |-> 1080], [width |-> 1680, height |-> 1050],
    [width |-> 1440, height |-> 900], [width |-> 1366, height |-> 768],
    [width |-> 1280, height |-> 800], [width |-> 1280, height |-> 720]>>
DEVICE_SCALE_FACTORS == <<"1", "1.5", "2">>
LOCALES == <<"en-US", "en-GB", "en-CA", "en-AU", "fr-FR", "de-DE", "es-ES", "it-IT">>
TIMEZONES ==
  <<"America/New_York", "America/Los_Angeles", "America/Chicago", "Europe/London",
    "Europe/Paris", "Europe/Berlin", "Asia/Tokyo", "Asia/Singapore", "Australia/Sydney">>
COLOR_SCHEMES == <<"light", "dark", "no-preference">>

\* random.choice(catalog), followed for the first n entries of the catalog
Choice(catalog, n) == {catalog[i] : i \in 1 .. Min(n, Len(catalog))}

\* get_random_fingerprint(): the model follows two user agents and both
\* values of has_touch, and the first entry of the other catalogs
get_random_fingerprint ==
  {[user_agent |-> ua, viewport |-> vp, device_scale_factor |-> dsf, locale |-> loc,
    timezone_id |-> tz, color_scheme |-> cs, reduced_motion |-> rm, has_touch |-> ht] :
     ua \in Choice(USER_AGENTS, 2), vp \in Choice(VIEWPORTS, 1),
     dsf \in Choice(DEVICE_SCALE_FACTORS, 1), loc \in Choice(LOCALES, 1),
     tz \in Choice(TIMEZONES, 1), cs \in Choice(COLOR_SCHEMES, 1),
     rm \in Choice(<<TRUE, FALSE>>, 1), ht \in Choice(<<TRUE, FALSE, FALSE, FALSE>>, 2)}

\* the keys of a fingerprint in the order the dictionary got them
FingerprintKeys ==
  <<"user_agent", "viewport", "device_scale_factor", "locale", "timezone_id",
    "color_scheme", "reduced_motion", "has_touch", "domain", "created_at">>

\* new_fingerprint['domain'] = domain; new_fingerprint['created_at'] = ...
Stamp(fp, domain, created_at) ==
  [k \in DOMAIN fp \cup {"domain", "created_at"} |->
     IF k = "domain" THEN domain ELSE IF k = "created_at" THEN created_at ELSE fp[k]]

\* datetime.now().isoformat()
IsoFormat(t) == ToString(t)

\* json.dump of a list of fingerprints: each dictionary becomes the sequence
\* of its key/value members in key order, a nested dictionary likewise
JsonMember(fp, k) ==
  IF k = "viewport" THEN <<k, << <<"width", fp[k].width>>, <<"height", fp[k].height>> >> >>
  ELSE <<k, fp[k]>>
JsonObject(fp) ==
  LET keys == SelectSeq(FingerprintKeys, LAMBDA k : k \in DOMAIN fp)
  IN [i \in 1 .. Len(keys) |-> JsonMember(fp, keys[i])]
JsonDump(fingerprints) == [i \in 1 .. Len(fingerprints) |-> JsonObject(fingerprints[i])]

\* json.load: each object becomes a dictionary again
JsonParseObject(members) ==
  [k \in {members[i][1] : i \in 1 .. Len(members)} |->
     LET m == members[CHOOSE i \in 1 .. Len(members) : members[i][1] = k]
     IN IF k = "viewport" THEN [width |-> m[2][1][2], height |-> m[2][2][2]] ELSE m[2]]
JsonLoad(text) == [i \in 1 .. Len(text) |-> JsonParseObject(text[i])]

\* the file: absent, not parsable as JSON (or not readable), or the text of
\* a table
FileAbsent == [kind |-> "absent"]
FileGarbage == [kind |-> "garbage"]
FileJson(fingerprints) == [kind |-> "json", text |-> JsonDump(fingerprints)]

\* load_fingerprints(file_path), read_ok telling whether open and json.load
\* went through
load_fingerprints(file, read_ok) ==
  IF file.kind = "absent" THEN <<>>
  ELSE IF file.kind = "json" /\ read_ok THEN JsonLoad(file.text)
  ELSE <<>>

\* save_fingerprints(fingerprints, file_path): the write goes through, open
\* raises and leaves the file alone, or the dump raises on the file that
\* open has truncated
WriteOutcomes == {"ok", "open_raises", "dump_raises"}
save_fingerprints(fingerprints, file, outcome) ==
  IF outcome = "ok" THEN FileJson(fingerprints)
  ELSE IF outcome = "open_raises" THEN file
  ELSE FileGarbage

\* for fp in fingerprints: if fp.get('domain') == domain: return fp
Matches(fingerprints, domain) ==
  {i \in 1 .. Len(fingerprints) :
     "domain" \in DOMAIN fingerprints[i] /\ fingerprints[i].domain = domain}
FirstMatch(fingerprints, domain) ==
  fingerprints[CHOOSE i \in Matches(fingerprints, domain) :
                 \A j \in Matches(fingerprints, domain) : i <= j]

\* the table saved for a new fingerprint, without the new fingerprint
AppendedNothing(fingerprints, new_fingerprint) == fingerprints

\* fingerprints.append(new_fingerprint)
Appended(fingerprints, new_fingerprint) == Append(fingerprints, new_fingerprint)

Domains == {"example.com", "shop.example"}

\* the tables a run starts from: no file, an unparsable file, an empty
\* table, and a table with a record for the first domain
InitialFiles ==
  {FileAbsent, FileGarbage, FileJson(<<>>)} \cup
  {FileJson(<<Stamp(fp, "example.com", IsoFormat(StartTime - 1))>>) :
     fp \in get_random_fingerprint}

NoFpCall == [domain |-> "", ret |-> NoCall, read_ok |-> FALSE, found |-> FALSE,
             write |-> "none"]

FingerprintInit ==
  /\ fp_file \in InitialFiles
  /\ fp_call = NoFpCall
  /\ fp_prev = NoFpCall

FingerprintIdle ==
  /\ fp_file = FileAbsent
  /\ fp_call = NoFpCall
  /\ fp_prev = NoFpCall

get_fingerprint_for_domain ==
  \E domain \in Domains, read_ok \in BOOLEAN :
    LET fingerprints == load_fingerprints(fp_file, read_ok)
        did_read == fp_file.kind = "absent" \/ (fp_file.kind = "json" /\ read_ok)
    IN /\ (fp_file.kind # "json") => read_ok = (fp_file.kind = "absent")
       /\ fp_prev' = fp_call
       /\ IF Matches(fingerprints, domain) # {}
          THEN /\ fp_call' = [domain |-> domain, ret |-> Return(FirstMatch(fingerprints, domain)),
                              read_ok |-> did_read, found |-> TRUE, write |-> "none"]
               /\ UNCHANGED <<fp_file, now>>
          ELSE \E fp \in get_random_fingerprint, outcome \in WriteOutcomes :
                 LET new_fingerprint == Stamp(fp, domain, IsoFormat(now))
                 IN /\ now < StartTime + MaxStamps
                    /\ now' = now + 1
                    /\ fp_file' = save_fingerprints(Appended(fingerprints, new_fingerprint),
                                                    fp_file, outcome)
                    /\ fp_call' = [domain |-> domain, ret |-> Return(new_fingerprint),
                                   read_ok |-> did_read, found |-> FALSE, write |-> outcome]

(***************************************************************************)
(* Text, as sequences of one-character strings                             *)
(***************************************************************************)
LowerLetters ==
  {"a", "b", "c", "d", "e", "f", "g", "h", "i", "j", "k", "l", "m", "n", "o", "p", "q", "r",
   "s", "t", "u", "v", "w", "x", "y", "z"}
\* str.lower() of the capitals
LowerOf ==
  [A |-> "a", B |-> "b", C |-> "c", D |-> "d", E |-> "e", F |-> "f", G |-> "g", H |-> "h",
   I |-> "i", J |-> "j", K |-> "k", L |-> "l", M |-> "m", N |-> "n", O |-> "o", P |-> "p",
   Q |-> "q", R |-> "r", S |-> "s", T |-> "t", U |-> "u", V |-> "v", W |-> "w", X |-> "x",
   Y |-> "y", Z |-> "z"]
\* the class [\w-]
WordOrDash == LowerLetters \cup (DOMAIN LowerOf) \cup {"0", "1", "2", "3", "4", "5", "6",
    "7", "8", "9"} \cup {"_", "-"}
\* the class ["\']
Quotes == {"\"", "'"}
\* the class \s
Spaces == {" ", "\t", "\n", "\r"}

\* str.lower()
Lower(s) == [i \in 1 .. Len(s) |-> IF s[i] \in (DOMAIN LowerOf) THEN LowerOf[s[i]] ELSE s[i]]

\* the literal lit stands in s at position i
LitAt(s, i, lit) ==
  /\ i >= 1
  /\ i + Len(lit) - 1 <= Len(s)
  /\ \A k \in 1 .. Len(lit) : s[i + k - 1] = lit[k]

\* "lit in s"
Contains(s, lit) == \E i \in 1 .. Len(s) : LitAt(s, i, lit)

\* the first position at or after i that holds no character of class, as a
\* greedy class* leaves it
RECURSIVE SkipClass(_, _, _)
SkipClass(s, i, class) ==
  IF i <= Len(s) /\ s[i] \in class THEN SkipClass(s, i + 1, class) ELSE i

\* s[i..j-1]
Slice(s, i, j) == [k \in 1 .. (j - i) |-> s[i + k - 1]]

\* ["\']([\w-]+)["\'] at position i: the position after it when it matches
\* there, 0 when it does not; the group is s[i+1 .. end-2]
QuotedWordEnd(s, i) ==
  IF i <= Len(s) /\ s[i] \in Quotes
  THEN LET e == SkipClass(s, i + 1, WordOrDash)
       IN IF e > i + 1 /\ e <= Len(s) /\ s[e] \in Quotes THEN e + 1 ELSE 0
  ELSE 0

LitSitekey == <<"s", "i", "t", "e", "k", "e", "y">>

LitLoader == <<"g", "o", "o", "g", "l", "e", ".", "c", "o", "m", "/", "r", "e", "c", "a", "p", "t",
    "c", "h", "a", "/", "a", "p", "i", ".", "j", "s", "?", "r", "e", "n", "d", "e", "r",
    "=">>

LitRender == <<"g", "r", "e", "c", "a", "p", "t", "c", "h", "a", ".", "r", "e", "n", "d", "e", "r",
    "(">>

\* re.search(r'["\']sitekey["\']\s*:\s*["\']([\w-]+)["\']', content):
\* the match starting at i, as the position of the value's opening quote
\* (0: no match at i)
SitekeyPairAt(s, i) ==
  IF i <= Len(s) /\ s[i] \in Quotes /\ LitAt(s, i + 1, LitSitekey)
     /\ i + 8 <= Len(s) /\ s[i + 8] \in Quotes
  THEN LET colon == SkipClass(s, i + 9, Spaces)
       IN IF colon <= Len(s) /\ s[colon] = ":"
          THEN LET q == SkipClass(s, colon + 1, Spaces)
               IN IF QuotedWordEnd(s, q) # 0 THEN q ELSE 0
          ELSE 0
  ELSE 0

\* re.search: the leftmost start with a match; None when there is none
SearchSitekeyPair(s) ==
  LET starts == {i \in 1 .. Len(s) : SitekeyPairAt(s, i) # 0}
  IN IF starts = {} THEN None
     ELSE LET i == CHOOSE i \in starts : \A j \in starts : i <= j
              q == SitekeyPairAt(s, i)
          IN Return(Slice(s, q + 1, QuotedWordEnd(s, q) - 1))

\* re.search(r'google\.com/recaptcha/api\.js\?render=([\w-]+)', content)
SearchLoaderRender(s) ==
  LET starts == {i \in 1 .. Len(s) :
                   LitAt(s, i, LitLoader)
                   /\ SkipClass(s, i + Len(LitLoader), WordOrDash) > i + Len(LitLoader)}
  IN IF starts = {} THEN None
     ELSE LET i == CHOOSE i \in starts : \A j \in starts : i <= j
          IN Return(Slice(s, i + Len(LitLoader), SkipClass(s, i + Len(LitLoader), WordOrDash)))

\* the quoted words .*?["\']([\w-]+)["\'] can reach from position a: those
\* with no line break between a and their opening quote
RenderArgsFrom(s, a) ==
  {q \in a .. Len(s) : QuotedWordEnd(s, q) # 0 /\ \A k \in a .. (q - 1) : s[k] # "\n"}

\* the lazy .*? stops at the first of them
RenderArgFirst(s, a) == CHOOSE q \in RenderArgsFrom(s, a) : \A r \in RenderArgsFrom(s, a) : q <= r

\* re.search(r'grecaptcha\.render\(.*?["\']([\w-]+)["\']', content)
SearchRenderCall(s) ==
  LET starts == {i \in 1 .. Len(s) :
                   LitAt(s, i, LitRender) /\ RenderArgsFrom(s, i + Len(LitRender)) # {}}
  IN IF starts = {} THEN None
     ELSE LET i == CHOOSE i \in starts : \A j \in starts : i <= j
              q == RenderArgFirst(s, i + Len(LitRender))
          IN Return(Slice(s, q + 1, QuotedWordEnd(s, q) - 1))

(***************************************************************************)
(* Pages: the rendered HTML, the selectors of detect_captcha that match    *)
(* an element of it, and the data-sitekey attribute of the three widget    *)
(* containers (None: no such element or no such attribute)                 *)
(***************************************************************************)

KeyAbc123 == <<"a", "b", "c", "1", "2", "3">>

KeyXyz789 == <<"x", "y", "z", "7", "8", "9">>

Text(chars) == [kind |-> "text", value |-> chars]
\* "if site_key:" of None or a string
AttrTruthy(a) == a.kind = "text" /\ a.value # <<>>

\* utils.py:13-33
CaptchaSelectors ==
  <<".g-recaptcha", "iframe[src*=\"recaptcha\"]", "iframe[src*=\"google.com/recaptcha\"]",
    "script[src*=\"recaptcha\"]", ".h-captcha", "iframe[src*=\"hcaptcha.com\"]",
    "iframe[src*=\"arkoselabs.com\"]", "iframe[src*=\"funcaptcha\"]", ".cf-turnstile",
    "iframe[src*=\"challenges.cloudflare.com\"]", "[id*=\"captcha\"]", "[class*=\"captcha\"]",
    "[name*=\"captcha\"]">>
\* utils.py:45
\* 'captcha', 'robot check', 'human verification', 'security check'
CaptchaKeywords == <<<<"c", "a", "p", "t", "c", "h", "a">>, <<"r", "o", "b", "o", "t",
    " ", "c", "h", "e", "c", "k">>, <<"h", "u", "m", "a", "n", " ", "v", "e", "r", "i",
    "f", "i", "c", "a", "t", "i", "o", "n">>, <<"s", "e", "c", "u", "r", "i", "t", "y",
    " ", "c", "h", "e", "c", "k">>>>

Doc(html, matching, recaptcha, hcaptcha, turnstile) ==
  [html |-> html, matching |-> matching, recaptcha |-> recaptcha, hcaptcha |-> hcaptcha,
   turnstile |-> turnstile]

\* <div class="g-recaptcha" data-sitekey="abc123"></div>
DocRecaptchaDiv ==
  Doc(<<"<", "d", "i", "v", " ", "c", "l", "a", "s", "s", "=", "\"", "g", "-", "r", "e",
      "c", "a", "p", "t", "c", "h", "a", "\"", " ", "d", "a", "t", "a", "-", "s", "i",
      "t", "e", "k", "e", "y", "=", "\"", "a", "b", "c", "1", "2", "3", "\"", ">", "<",
      "/", "d", "i", "v", ">">>, {".g-recaptcha", "[class*=\"captcha\"]"},
      Text(KeyAbc123), None, None)
\* <script>grecaptcha.render('body', {sitekey: "xyz789"})</script>
DocRenderCall == Doc(<<"<", "s", "c", "r", "i", "p", "t", ">", "g", "r", "e", "c", "a",
    "p", "t", "c", "h", "a", ".", "r", "e", "n", "d", "e", "r", "(", "'", "b", "o", "d",
    "y", "'", ",", " ", "{", "s", "i", "t", "e", "k", "e", "y", ":", " ", "\"", "x", "y",
    "z", "7", "8", "9", "\"", "}", ")", "<", "/", "s", "c", "r", "i", "p", "t", ">">>,
    {}, None, None, None)
\* <script>var c = {"sitekey" : 'key-42'}</script>
DocQuotedSitekey == Doc(<<"<", "s", "c", "r", "i", "p", "t", ">", "v", "a", "r", " ",
    "c", " ", "=", " ", "{", "\"", "s", "i", "t", "e", "k", "e", "y", "\"", " ", ":",
    " ", "'", "k", "e", "y", "-", "4", "2", "'", "}", "<", "/", "s", "c", "r", "i", "p",
    "t", ">">>, {}, None, None, None)
\* <script src="https://www.google.com/recaptcha/api.js?render=v3_key"></script>
DocLoaderUrl == Doc(<<"<", "s", "c", "r", "i", "p", "t", " ", "s", "r", "c", "=", "\"",
    "h", "t", "t", "p", "s", ":", "/", "/", "w", "w", "w", ".", "g", "o", "o", "g", "l",
    "e", ".", "c", "o", "m", "/", "r", "e", "c", "a", "p", "t", "c", "h", "a", "/", "a",
    "p", "i", ".", "j", "s", "?", "r", "e", "n", "d", "e", "r", "=", "v", "3", "_", "k",
    "e", "y", "\"", ">", "<", "/", "s", "c", "r", "i", "p", "t", ">">>,
    {"script[src*=\"recaptcha\"]"}, None, None, None)
\* <div class="h-captcha" data-sitekey="hkey"></div>
DocHcaptchaDiv ==
  Doc(<<"<", "d", "i", "v", " ", "c", "l", "a", "s", "s", "=", "\"", "h", "-", "c", "a",
      "p", "t", "c", "h", "a", "\"", " ", "d", "a", "t", "a", "-", "s", "i", "t", "e",
      "k", "e", "y", "=", "\"", "h", "k", "e", "y", "\"", ">", "<", "/", "d", "i", "v",
      ">">>, {".h-captcha", "[class*=\"captcha\"]"}, None, Text(<<"h", "k", "e", "y">>),
      None)
\* <div class="cf-turnstile" data-sitekey="tkey"></div>
DocTurnstileDiv == Doc(<<"<", "d", "i", "v", " ", "c", "l", "a", "s", "s", "=", "\"",
    "c", "f", "-", "t", "u", "r", "n", "s", "t", "i", "l", "e", "\"", " ", "d", "a", "t",
    "a", "-", "s", "i", "t", "e", "k", "e", "y", "=", "\"", "t", "k", "e", "y", "\"",
    ">", "<", "/", "d", "i", "v", ">">>, {".cf-turnstile"}, None, None, Text(<<"t", "k",
    "e", "y">>))
\* <p>hello</p>
DocPlain == Doc(<<"<", "p", ">", "h", "e", "l", "l", "o", "<", "/", "p", ">">>, {}, None,
    None, None)
\* <p>Security Check</p>
DocSecurityCheck == Doc(<<"<", "p", ">", "S", "e", "c", "u", "r", "i", "t", "y", " ",
    "C", "h", "e", "c", "k", "<", "/", "p", ">">>, {}, None, None, None)
\* <div class="g-recaptcha" data-sitekey="abc123"></div><script>{"sitekey":"other"}</script>
DocDivAndQuoted ==
  Doc(<<"<", "d", "i", "v", " ", "c", "l", "a", "s", "s", "=", "\"", "g", "-", "r", "e",
      "c", "a", "p", "t", "c", "h", "a", "\"", " ", "d", "a", "t", "a", "-", "s", "i",
      "t", "e", "k", "e", "y", "=", "\"", "a", "b", "c", "1", "2", "3", "\"", ">", "<",
      "/", "d", "i", "v", ">", "<", "s", "c", "r", "i", "p", "t", ">", "{", "\"", "s",
      "i", "t", "e", "k", "e", "y", "\"", ":", "\"", "o", "t", "h", "e", "r", "\"", "}",
      "<", "/", "s", "c", "r", "i", "p", "t", ">">>, {".g-recaptcha",
      "[class*=\"captcha\"]"}, Text(KeyAbc123), None, None)

Docs ==
  {DocRecaptchaDiv, DocRenderCall, DocQuotedSitekey, DocLoaderUrl, DocHcaptchaDiv,
   DocTurnstileDiv, DocPlain, DocSecurityCheck, DocDivAndQuoted}

(***************************************************************************)
(* detect_captcha and extract_captcha_sitekey (utils.py)                   *)
(***************************************************************************)
\* for selector in captcha_selectors: try: if page.query_selector(selector):
\* return True; except: pass.  failing: the selectors whose query raises
RECURSIVE SelectorLoop(_, _, _)
SelectorLoop(doc, failing, i) ==
  IF i > Len(CaptchaSelectors) THEN FALSE
  ELSE IF CaptchaSelectors[i] \notin failing /\ CaptchaSelectors[i] \in doc.matching THEN TRUE
  ELSE SelectorLoop(doc, failing, i + 1)

\* for keyword in captcha_keywords: if keyword in content: return True
KeywordFound(content) ==
  \E k \in 1 .. Len(CaptchaKeywords) : Contains(content, CaptchaKeywords[k])

\* detect_captcha(page): content_fails tells whether page.content() raises
detect_captcha(doc, failing, content_fails) ==
  IF SelectorLoop(doc, failing, 1) THEN Return(TRUE)
  ELSE IF content_fails THEN Raise("Error")
  ELSE Return(KeywordFound(Lower(doc.html)))

\* the page operations of extract_captcha_sitekey that can raise
ExtractOps ==
  {"query .g-recaptcha", "attribute .g-recaptcha", "content", "query .h-captcha",
   "attribute .h-captcha", "query .cf-turnstile", "attribute .cf-turnstile"}

\* one container lookup: query_selector, get_attribute('data-sitekey'),
\* "if site_key: return site_key".  The result is "return", "raise" or "next"
ContainerLookup(doc, selector, attr, fails) ==
  IF ("query " \o selector) \in fails THEN [end |-> "raise"]
  ELSE IF selector \in doc.matching
  THEN IF ("attribute " \o selector) \in fails THEN [end |-> "raise"]
       ELSE IF AttrTruthy(attr) THEN [end |-> "return", value |-> attr.value]
       ELSE [end |-> "next"]
  ELSE [end |-> "next"]

\* Methods 2 to 4 on the page content: the first of the three searches that
\* matches
ContentLookups(content) ==
  IF SearchSitekeyPair(content) # None THEN SearchSitekeyPair(content)
  ELSE IF SearchLoaderRender(content) # None THEN SearchLoaderRender(content)
  ELSE SearchRenderCall(content)

\* the first try block (utils.py:62-86)
RecaptchaBlock(doc, fails) ==
  LET el == ContainerLookup(doc, ".g-recaptcha", doc.recaptcha, fails)
  IN IF el.end # "next" THEN el
     ELSE IF "content" \in fails THEN [end |-> "raise"]
     ELSE IF ContentLookups(doc.html) # None
     THEN [end |-> "return", value |-> ContentLookups(doc.html).value]
     ELSE [end |-> "next"]

\* extract_captcha_sitekey(page): the three try blocks in order
extract_captcha_sitekey(doc, fails) ==
  LET re == RecaptchaBlock(doc, fails)
      hc == ContainerLookup(doc, ".h-captcha", doc.hcaptcha, fails)
      tu == ContainerLookup(doc, ".cf-turnstile", doc.turnstile, fails)
  IN IF re.end = "return" THEN Return(re.value)
     ELSE IF hc.end = "return" THEN Return(hc.value)
     ELSE IF tu.end = "return" THEN Return(tu.value)
     ELSE None

(***************************************************************************)
(* StealthBrowser                                                          *)
(***************************************************************************)
\* the handles in the order close() visits them
Handles == <<"page", "context", "browser", "playwright">>

BrCall(op, ret, fails, released) ==
  [op |-> op, ret |-> ret, fails |-> fails, released |-> released, doc |-> br_doc]

\* the state __init__ leaves: _start_browser has set the four handles
BrowserInit ==
  /\ br_handles = [h \in {"page", "context", "browser", "playwright"} |-> TRUE]
  /\ br_closed = FALSE
  /\ br_doc = DocPlain
  /\ br_call = [op |-> "init", ret |-> NoCall, fails |-> {}, released |-> <<>>,
                doc |-> DocPlain]

\* the try block of navigate (stealth_browser.py:116-119): page.goto, then
\* _scroll_page, then "return True"; the first step that raises ends it
NavigateTry(goto, scroll) ==
  IF goto = "raises" THEN Raise("Error")
  ELSE IF goto = "times_out" THEN Raise("TimeoutError")
  ELSE IF scroll = "raises" THEN Raise("Error")
  ELSE Return(TRUE)

\* try: ... except Exception: return False, with the outcome of the try block
ExceptReturnsFalseOnTimeoutOnly(outcome) ==
  IF outcome = Raise("TimeoutError") THEN Return(FALSE) ELSE outcome

ExceptReturnsFalse(outcome) ==
  IF outcome.kind = "raise" THEN Return(FALSE) ELSE outcome

\* the handles _start_browser has set when it returns, and when it raises on
\* the way: it sets playwright, browser, context and page in this order
\* (stealth_browser.py:32, 50, 53, 67)
StartedHandles ==
  {[h \in {"page", "context", "browser", "playwright"} |-> h \in started] :
     started \in {{}, {"playwright"}, {"playwright", "browser"},
                  {"playwright", "browser", "context"},
                  {"playwright", "browser", "context", "page"}}}

\* a StealthBrowser as _start_browser can leave it
BrowserStarted ==
  /\ br_handles \in StartedHandles
  /\ br_closed = FALSE
  /\ br_doc = DocPlain
  /\ br_call = [op |-> "init", ret |-> NoCall, fails |-> {}, released |-> <<>>,
                doc |-> DocPlain]

\* navigate(url): page.goto, then _scroll_page; any exception gives False
navigate ==
  \E doc \in Docs, goto \in {"ok", "raises", "times_out"}, scroll \in {"ok", "raises"} :
    /\ br_handles.page /\ ~br_closed
    /\ br_doc' = doc
    /\ br_call' = BrCall("navigate", ExceptReturnsFalse(NavigateTry(goto, scroll)),
                         IF goto = "raises" THEN {"goto"}
                         ELSE IF goto = "times_out" THEN {"goto_timeout"}
                         ELSE IF scroll = "raises" THEN {"scroll"} ELSE {}, <<>>)
    /\ UNCHANGED <<br_handles, br_closed>>

\* the selector queries that can raise: any of those that would match, and
\* with or without them the ones that would not
FailingSelectors(doc) ==
  LET all == {CaptchaSelectors[i] : i \in 1 .. Len(CaptchaSelectors)}
  IN {f \cup g : f \in SUBSET doc.matching, g \in {{}, all \ doc.matching}}

\* has_captcha(): return detect_captcha(self.page)
has_captcha ==
  \E failing \in FailingSelectors(br_doc), content_fails \in BOOLEAN :
    /\ br_handles.page /\ ~br_closed
    /\ br_call' = BrCall("has_captcha", detect_captcha(br_doc, failing, content_fails),
                         (IF failing # {} THEN {"query_selector"} ELSE {})
                           \cup (IF content_fails THEN {"content"} ELSE {}), <<>>)
    /\ UNCHANGED <<br_handles, br_closed, br_doc>>

\* get_captcha_site_key(): return extract_captcha_sitekey(self.page)
get_captcha_site_key ==
  \E fails \in SUBSET ExtractOps :
    /\ br_handles.page /\ ~br_closed
    /\ br_call' = BrCall("get_captcha_site_key", extract_captcha_sitekey(br_doc, fails),
                         fails, <<>>)
    /\ UNCHANGED <<br_handles, br_closed, br_doc>>

\* submit_captcha_solution(solution): page.evaluate, page.wait_for_navigation
submit_captcha_solution ==
  \E doc \in Docs, fails \in SUBSET {"evaluate", "wait_for_navigation"} :
    /\ br_handles.page /\ ~br_closed
    /\ br_doc' = IF "evaluate" \in fails THEN br_doc ELSE doc
    /\ br_call' = BrCall("submit_captcha_solution",
                         IF fails = {} THEN Return(TRUE) ELSE Return(FALSE),
                         IF "evaluate" \in fails THEN {"evaluate"} ELSE fails, <<>>)
    /\ UNCHANGED <<br_handles, br_closed>>

\* save_complete(save_path): save_page_complete wraps all it does in one
\* try and returns None when any step raises
save_complete ==
  \E fails \in SUBSET {"save"} :
    /\ br_handles.page /\ ~br_closed
    /\ br_call' = BrCall("save_complete",
                         IF fails = {} THEN Return("full_path") ELSE None, fails, <<>>)
    /\ UNCHANGED <<br_handles, br_closed, br_doc>>

\* screenshot(path)
screenshot ==
  \E fails \in SUBSET {"screenshot"} :
    /\ br_handles.page /\ ~br_closed
    /\ br_call' = BrCall("screenshot",
                         IF fails = {} THEN Return(TRUE) ELSE Return(FALSE), fails, <<>>)
    /\ UNCHANGED <<br_handles, br_closed, br_doc>>

\* close() giving up at the first handle that is unset
RECURSIVE CloseRunStopsAtUnset(_, _, _)
CloseRunStopsAtUnset(handles, raising, i) ==
  IF i > Len(Handles) \/ ~handles[Handles[i]] THEN <<>>
  ELSE IF Handles[i] \in raising THEN <<Handles[i]>>
  ELSE <<Handles[i]>> \o CloseRunStopsAtUnset(handles, raising, i + 1)

\* the releases close() attempts, in order, when those in raising raise:
\* each handle that is set, up to and including the first that raises
RECURSIVE CloseRun(_, _, _)
CloseRun(handles, raising, i) ==
  IF i > Len(Handles) THEN <<>>
  ELSE IF ~handles[Handles[i]] THEN CloseRun(handles, raising, i + 1)
  ELSE IF Handles[i] \in raising THEN <<Handles[i]>>
  ELSE <<Handles[i]>> \o CloseRun(handles, raising, i + 1)

\* close()
close ==
  \E raising \in SUBSET {"page", "context", "browser", "playwright"} :
    LET released == CloseRun(br_handles, raising, 1)
        raised == released # <<>> /\ released[Len(released)] \in raising
    IN /\ br_closed' = TRUE
       /\ br_call' = BrCall("close", IF raised THEN Raise("Error") ELSE None,
                            {released[i] : i \in 1 .. Len(released)} \cap raising, released)
       /\ UNCHANGED <<br_handles, br_doc>>

(***************************************************************************)
(* AntiCaptchaSolver: report_incorrect_solution                            *)
(***************************************************************************)
\* captcha_type arguments: 'recaptcha', 'ReCaptcha', 'hcaptcha', 'HCAPTCHA',
\* 'turnstile', 'Turnstile', 'image', '' and None
CaptchaTypeArgs ==
  {Text(<<"r", "e", "c", "a", "p", "t", "c", "h", "a">>), Text(<<"R", "e", "C", "a", "p", "t", "c", "h", "a">>),
   Text(<<"h", "c", "a", "p", "t", "c", "h", "a">>), Text(<<"H", "C", "A", "P", "T", "C", "H", "A">>),
   Text(<<"t", "u", "r", "n", "s", "t", "i", "l", "e">>), Text(<<"T", "u", "r", "n", "s", "t", "i", "l", "e">>),
   Text(<<"i", "m", "a", "g", "e">>), Text(<<>>), None}

\* the branches of report_incorrect_solution: the solver class each builds
\* and the remote report it calls ("none": no report call in the branch)
ReportBranches ==
  << [type |-> <<"r", "e", "c", "a", "p", "t", "c", "h", "a">>, class |-> "recaptchaV2Proxyless",
      report |-> "report_incorrect_recaptcha"],
     [type |-> <<"h", "c", "a", "p", "t", "c", "h", "a">>, class |-> "hCaptchaProxyless",
      report |-> "report_incorrect_hcaptcha"],
     [type |-> <<"t", "u", "r", "n", "s", "t", "i", "l", "e">>, class |-> "TurnstileProxyless", report |-> "none"] >>

\* the comparisons of report_incorrect_solution without .lower()
ReportKeyCaseSensitive(captcha_type) == captcha_type.value

\* captcha_type.lower()
ReportKey(captcha_type) == Lower(captcha_type.value)

\* what can raise under report_incorrect_solution: the solver's constructor
\* or set_key, and the remote report
ReportFailures == {"construct", "report"}

\* the try block of report_incorrect_solution: the events it causes in order
\* and whether it ends by raising
ReportTry(captcha_type, fails) ==
  IF captcha_type.kind # "text"
  THEN [trace |-> <<>>, raised |-> TRUE]
  ELSE LET hit == {b \in 1 .. Len(ReportBranches) :
                     ReportBranches[b].type = ReportKey(captcha_type)}
       IN IF hit = {}
          THEN [trace |-> << <<"print", 0>> >>, raised |-> FALSE]
          ELSE LET branch == ReportBranches[CHOOSE b \in hit : TRUE]
               IN IF "construct" \in fails
                  THEN [trace |-> <<>>, raised |-> TRUE]
                  ELSE IF branch.report = "none"
                  THEN [trace |-> << <<branch.class, 0>>, <<"print", 0>> >>, raised |-> FALSE]
                  ELSE [trace |-> << <<branch.class, 0>>, <<branch.report, 0>> >>,
                        raised |-> "report" \in fails]

\* report_incorrect_solution(captcha_type): the try block, and
\* "except Exception" which prints and returns
report_incorrect_solution ==
  \E captcha_type \in CaptchaTypeArgs, fails \in SUBSET ReportFailures :
    /\ solver_call.pc \in {"idle", "done", "reported"}
    /\ solver_call' = [pc |-> "reported", op |-> "report_incorrect_solution",
                       max_attempts |-> 0, attempt |-> 0,
                       outcomes |-> <<captcha_type, fails>>, ret |-> None,
                       trace |-> ReportTry(captcha_type, fails).trace]

(***************************************************************************)
(* save_page_complete (page_saver.py)                                      *)
(***************************************************************************)
NameLimit == 100
NameKept == 97
InvalidNameChars == {"\\", "/", "*", "?", ":", "\"", "<", ">", "|"}

\* sanitize_filename(filename)
sanitize_filename(filename) ==
  LET sanitized == [i \in 1 .. Len(filename) |->
                      IF filename[i] \in InvalidNameChars THEN "_" ELSE filename[i]]
      limited == IF Len(sanitized) > NameLimit
                 THEN SubSeq(sanitized, 1, NameKept) \o <<".", ".", ".">> ELSE sanitized
  IN IF limited = <<>> \/ \A i \in 1 .. Len(limited) : limited[i] \in Spaces
     THEN <<"w", "e", "b", "p", "a", "g", "e">> ELSE limited

\* str.replace(old, new) for a non-empty old: the occurrences of old from
\* left to right, without overlap
RECURSIVE StrReplaceFrom(_, _, _, _)
StrReplaceFrom(str, i, old, new) ==
  IF i > Len(str) THEN <<>>
  ELSE IF LitAt(str, i, old) THEN new \o StrReplaceFrom(str, i + Len(old), old, new)
  ELSE <<str[i]>> \o StrReplaceFrom(str, i + 1, old, new)

StrReplace(str, old, new) == StrReplaceFrom(str, 1, old, new)

\* html_content is kept as its sequence of pieces: the tags the three
\* patterns look at, each with the text of its href or src attribute, and
\* plain text.  replace() rewrites the text of every piece.
Piece(tag, text) == [tag |-> tag, text |-> text]
HtmlReplace(html, old, new) ==
  [k \in 1 .. Len(html) |-> Piece(html[k].tag, StrReplace(html[k].text, old, new))]

\* the three passes of download_resources in order
Passes == <<"css", "js", "img">>

\* css_pattern, js_pattern, img_pattern (re.IGNORECASE) on one piece
PatternMatches(pass, piece) ==
  /\ \A i \in 1 .. Len(piece.text) : piece.text[i] \notin Quotes \cup {">"}
  /\ \/ pass = "css" /\ piece.tag = "link" /\ Contains(Lower(piece.text), <<".", "c",
      "s", "s">>)
     \/ pass = "js" /\ piece.tag = "script" /\ Contains(Lower(piece.text), <<".", "j",
         "s">>)
     \/ pass = "img" /\ piece.tag = "img"

\* pattern.finditer(html_content): the matches, left to right, of the string
\* html_content is bound to when the loop starts; each with match.group(1)
RECURSIVE FindIter(_, _, _)
FindIter(pass, html, k) ==
  IF k > Len(html) THEN <<>>
  ELSE IF PatternMatches(pass, html[k])
  THEN <<[piece |-> k, url |-> html[k].text]>> \o FindIter(pass, html, k + 1)
  ELSE FindIter(pass, html, k + 1)

\* os.path.basename(urlparse(url).path): the path ends at the first ? or #
RECURSIVE PathEnd(_, _)
PathEnd(url, i) ==
  IF i > Len(url) \/ url[i] \in {"?", "#"} THEN i - 1 ELSE PathEnd(url, i + 1)

RECURSIVE BaseStart(_, _)
BaseStart(url, i) == IF i = 0 \/ url[i] = "/" THEN i + 1 ELSE BaseStart(url, i - 1)

BaseName(url) ==
  LET e == PathEnd(url, 1) IN SubSeq(url, BaseStart(url, e), e)

PageTitle == <<"p">>
\* filename, full_path and resources_dir below save_path (page_saver.py:26-30)
MainFileName == sanitize_filename(PageTitle) \o <<".", "h", "t", "m", "l">>
ResourcesDir == MainFileName \o <<"_", "f", "i", "l", "e", "s">>

\* what can happen in download_resource
DownloadOutcomes == {"ok", "new_page_raises", "goto_raises", "not_ok", "write_raises"}

\* download_resource(page, url, resources_dir): save_path below save_path,
\* or None; it raises in no case
download_resource(url, outcome) ==
  IF outcome = "ok"
  THEN Return(ResourcesDir \o <<"/">> \o sanitize_filename(BaseName(url)))
  ELSE None

\* the pages saved

\* <link href="style.css">
\* <link href="a.css"><link href="/static/a.css">
\* <img src="x.png"><img src="x.png">
\* <link href="a.css"><script src="js/app.js?v=2"></script><img src="x.png">
\* see a.css<script src="js/app.js?v=2"></script><link href="a.css">
SavedPages ==
  {<<Piece("link", <<"s", "t", "y", "l", "e", ".", "c", "s", "s">>)>>,
   <<Piece("link", <<"a", ".", "c", "s", "s">>), Piece("link", <<"/", "s", "t", "a", "t",
       "i", "c", "/", "a", ".", "c", "s", "s">>)>>,
   <<Piece("img", <<"x", ".", "p", "n", "g">>), Piece("img", <<"x", ".", "p", "n",
       "g">>)>>,
   <<Piece("link", <<"a", ".", "c", "s", "s">>), Piece("script", <<"j", "s", "/", "a",
       "p", "p", ".", "j", "s", "?", "v", "=", "2">>), Piece("img", <<"x", ".", "p", "n",
       "g">>)>>,
   <<Piece("text", <<"s", "e", "e", " ", "a", ".", "c", "s", "s">>), Piece("script",
       <<"j", "s", "/", "a", "p", "p", ".", "j", "s", "?", "v", "=", "2">>),
       Piece("link", <<"a", ".", "c", "s", "s">>)>>}

SaverIdle ==
  /\ saver = [pc |-> "idle", original |-> <<>>, html |-> <<>>, matches |-> <<>>,
              downloads |-> <<>>, file |-> None, ret |-> NoCall,
              in_with |-> FALSE, pages |-> 0]
  /\ san_call = [filename |-> <<>>, ret |-> NoCall]

\* the next loop of download_resources that has a match to visit, from pass
\* number n on; after the last the file is written
RECURSIVE EnterPass(_, _)
EnterPass(n, html) ==
  IF n > Len(Passes) THEN [pc |-> "write", matches |-> <<>>]
  ELSE IF FindIter(Passes[n], html, 1) # <<>>
  THEN [pc |-> Passes[n], matches |-> FindIter(Passes[n], html, 1)]
  ELSE EnterPass(n + 1, html)

\* save_page_complete up to the first download: makedirs, page.title(),
\* page.content() (page_saver.py:19-34); when one of them raises the save
\* returns None
save_page_complete ==
  \E html \in SavedPages, begins \in BOOLEAN :
    /\ saver.pc \in {"idle", "done"}
    /\ saver' = IF begins
                THEN [pc |-> EnterPass(1, html).pc, original |-> html, html |-> html,
                      matches |-> EnterPass(1, html).matches, downloads |-> <<>>,
                      file |-> None, ret |-> NoCall,
                      in_with |-> FALSE, pages |-> saver.pages]
                ELSE [pc |-> "done", original |-> html, html |-> html, matches |-> <<>>,
                      downloads |-> <<>>, file |-> None, ret |-> None,
                      in_with |-> FALSE, pages |-> saver.pages]

\* a with statement that closed resource_page on every way out but the
\* handled navigation error
PagesAfterWithLeakOnError(pages, outcome) ==
  IF outcome = "goto_raises" THEN pages ELSE pages - 1

\* the throwaway pages open after the with statement of download_resource
\* is left, by a return, by the handled exception or by falling through:
\* leaving the block closes resource_page (page_saver.py:145-156)
PagesAfterWith(pages, outcome) == pages - 1

\* download_resource up to the body of its with statement: filename and
\* makedirs, then page.context.new_page() opens resource_page
\* (page_saver.py:124-145)
new_resource_page ==
  /\ saver.pc \in {"css", "js", "img"}
  /\ ~saver.in_with
  /\ saver' = [saver EXCEPT !.in_with = TRUE, !.pages = @ + 1]

\* the rest of one turn of a loop of download_resources: the download of
\* the match ends, when new_page raised or past the with statement, and when
\* a local path came back the reference is replaced everywhere in
\* html_content
download_resources ==
  \E outcome \in DownloadOutcomes :
    /\ saver.pc \in {"css", "js", "img"}
    /\ saver.in_with = (outcome # "new_page_raises")
    /\ LET match == Head(saver.matches)
           local_path == download_resource(match.url, outcome)
           html == IF local_path # None
                   THEN HtmlReplace(saver.html, match.url, local_path.value)
                   ELSE saver.html
           rest == Tail(saver.matches)
           next == IF rest # <<>> THEN [pc |-> saver.pc, matches |-> rest]
                   ELSE EnterPass((CHOOSE n \in 1 .. Len(Passes) : Passes[n] = saver.pc) + 1, html)
       IN saver' = [saver EXCEPT !.html = html, !.pc = next.pc, !.matches = next.matches,
                                 !.in_with = FALSE,
                                 !.pages = IF saver.in_with THEN PagesAfterWith(@, outcome)
                                           ELSE @,
                                 !.downloads = @ \o <<[pass |-> saver.pc, piece |-> match.piece,
                                                       url |-> match.url, outcome |-> outcome]>>]

\* the end of save_page_complete: open(full_path, 'w') and f.write
\* (page_saver.py:40-48)
save_html_file ==
  \E written \in BOOLEAN :
    /\ saver.pc = "write"
    /\ saver' = [saver EXCEPT !.pc = "done",
                              !.file = IF written THEN Return(saver.html) ELSE None,
                              !.ret = IF written THEN Return(MainFileName) ELSE None]

(***************************************************************************)
(* sanitize_filename on its own                                            *)
(***************************************************************************)
\* the longest input given to sanitize_filename, and the length up to which
\* every input over NameAlphabet is given
MaxNameLen == 102
MaxShortLen == 2

NameAlphabet == {"a", ".", " ", "\t", "/", ":", "*", "|"}

\* the pieces the long inputs repeat
NameUnits ==
  {<<"a">>, <<" ">>, <<"/">>, <<"a", "/">>, <<" ", "\t">>, <<":", "b", " ">>, <<"*", "?">>,
   <<"x", " ">>}

\* unit repeated to the length n
Repeated(unit, n) == [i \in 1 .. n |-> unit[((i - 1) % Len(unit)) + 1]]

\* the arguments given to sanitize_filename: every string up to MaxShortLen
\* over NameAlphabet, and strings around NameKept and NameLimit characters
NameArgs ==
  SeqUpTo(NameAlphabet, MaxShortLen)
    \cup {Repeated(unit, n) : unit \in NameUnits,
                              n \in {NameKept, NameLimit - 1, NameLimit, NameLimit + 1,
                                     MaxNameLen}}

\* a call of sanitize_filename(filename)
call_sanitize_filename ==
  \E filename \in NameArgs :
    san_call' = [filename |-> filename, ret |-> Return(sanitize_filename(filename))]

(***************************************************************************)
(* main() of examples/complete_solution.py, from the browser's start       *)
(***************************************************************************)
\* anticaptcha.py:17: max_attempts=3
DefaultMaxAttempts == 3
\* complete_solution.py:118: time.sleep(5)
SubmitWait == 5

MainIdle ==
  main_run = [pc |-> "idle", solver |-> FALSE, after_close |-> "none", closes |-> 0,
              saves |-> 0, detected |-> FALSE, solution |-> None, exit |-> "none"]

\* main() after "browser = StealthBrowser(...)" (complete_solution.py:90),
\* with captcha_solver set or None (lines 80-86)
MainStarted ==
  main_run \in {[pc |-> "navigate", solver |-> solver, after_close |-> "none", closes |-> 0,
                 saves |-> 0, detected |-> FALSE, solution |-> None, exit |-> "none"] :
                  solver \in BOOLEAN}

\* the process ends on an exception no handler of main() catches
Uncaught == [main_run EXCEPT !.pc = "exited", !.exit = "raised"]

\* on to "browser.close()" followed by sys.exit(1), or by the return
ToClose(run, then) == [run EXCEPT !.pc = "close", !.after_close = then]

\* if not browser.navigate(url): ... (complete_solution.py:94-97)
main_navigate ==
  /\ main_run.pc = "navigate"
  /\ navigate
  /\ main_run' = IF br_call'.ret.kind = "raise" THEN Uncaught
                 ELSE IF br_call'.ret = Return(TRUE)
                 THEN [main_run EXCEPT !.pc = "has_captcha"]
                 ELSE ToClose(main_run, "exit1")
  /\ UNCHANGED now

\* if browser.has_captcha(): if captcha_solver: ... else: ...
\* (complete_solution.py:100-103, 127-130)
main_has_captcha ==
  /\ main_run.pc = "has_captcha"
  /\ has_captcha
  /\ main_run' = IF br_call'.ret.kind = "raise" THEN Uncaught
                 ELSE IF br_call'.ret = Return(TRUE)
                 THEN IF main_run.solver
                      THEN [main_run EXCEPT !.pc = "site_key", !.detected = TRUE]
                      ELSE ToClose([main_run EXCEPT !.detected = TRUE], "exit1")
                 ELSE [main_run EXCEPT !.pc = "save"]
  /\ UNCHANGED now

\* site_key = browser.get_captcha_site_key(); if site_key: ... else: ...
\* (complete_solution.py:105-107, 123-126)
main_site_key ==
  /\ main_run.pc = "site_key"
  /\ get_captcha_site_key
  /\ main_run' = IF br_call'.ret.kind = "raise" THEN Uncaught
                 ELSE IF br_call'.ret.kind = "return" /\ br_call'.ret.value # <<>>
                 THEN [main_run EXCEPT !.pc = "solve"]
                 ELSE ToClose(main_run, "exit1")
  /\ UNCHANGED now

\* solution = captcha_solver.solve_recaptcha(website_url=url,
\* website_key=site_key): the call begins (complete_solution.py:109-112)
main_solve_start ==
  /\ main_run.pc = "solve"
  /\ solve_start
  /\ solver_call'.op = "solve_recaptcha"
  /\ solver_call'.max_attempts = DefaultMaxAttempts
  /\ main_run' = [main_run EXCEPT !.pc = "solving"]
  /\ UNCHANGED now

\* a turn of solve_recaptcha's loop, and when the call ends
\* "if solution: ... else: ..." (complete_solution.py:114, 119-122)
main_solve_attempt ==
  /\ main_run.pc = "solving"
  /\ solve_attempt
  /\ main_run' = IF solver_call'.pc # "done" THEN main_run
                 ELSE IF solver_call'.ret.kind = "raise" THEN Uncaught
                 ELSE IF solver_call'.ret.kind = "return"
                 THEN [main_run EXCEPT !.pc = "submit", !.solution = solver_call'.ret]
                 ELSE ToClose(main_run, "exit1")
  /\ UNCHANGED now

\* browser.submit_captcha_solution(solution); time.sleep(5)
\* (complete_solution.py:116-118)
main_submit ==
  /\ main_run.pc = "submit"
  /\ submit_captcha_solution
  /\ main_run' = IF br_call'.ret.kind = "raise" THEN Uncaught
                 ELSE [main_run EXCEPT !.pc = "save"]
  /\ now' = now + SubmitWait

\* saved_path = browser.save_complete(save_dir) (complete_solution.py:134-140)
main_save ==
  /\ main_run.pc = "save"
  /\ save_complete
  /\ main_run' = IF br_call'.ret.kind = "raise" THEN Uncaught
                 ELSE [main_run EXCEPT !.pc = "screenshot", !.saves = @ + 1]
  /\ UNCHANGED now

\* browser.screenshot(screenshot_path) (complete_solution.py:143-145)
main_screenshot ==
  /\ main_run.pc = "screenshot"
  /\ screenshot
  /\ main_run' = IF br_call'.ret.kind = "raise" THEN Uncaught
                 ELSE ToClose(main_run, "return")
  /\ UNCHANGED now

\* browser.close(), then sys.exit(1) or the end of main()
\* (complete_solution.py:96-97, 121-122, 125-126, 129-130, 149-153)
main_close ==
  /\ main_run.pc = "close"
  /\ close
  /\ main_run' = [main_run EXCEPT !.pc = "exited", !.closes = @ + 1,
                                  !.exit = IF br_call'.ret.kind = "raise" THEN "raised"
                                           ELSE main_run.after_close]
  /\ UNCHANGED now

vars == <<now, rotVars, spVars, solver_call, fpVars, brVars, saver, san_call, main_run>>

InitSaver ==
  /\ now = StartTime
  /\ SaverIdle /\ BrowserInit /\ RotatorIdle /\ SmartIdle /\ SolverInit /\ FingerprintIdle /\ MainIdle

NextSaver ==
  \/ save_page_complete /\ UNCHANGED <<now, rotVars, spVars, solver_call, fpVars, brVars, san_call, main_run>>
  \/ new_resource_page /\ UNCHANGED <<now, rotVars, spVars, solver_call, fpVars, brVars, san_call, main_run>>
  \/ download_resources /\ UNCHANGED <<now, rotVars, spVars, solver_call, fpVars, brVars, san_call, main_run>>
  \/ save_html_file /\ UNCHANGED <<now, rotVars, spVars, solver_call, fpVars, brVars, san_call, main_run>>

\* save_page_complete on the pages of SavedPages
SpecSaver == InitSaver /\ [][NextSaver]_vars

NextSanitize ==
  call_sanitize_filename
    /\ UNCHANGED <<now, rotVars, spVars, solver_call, fpVars, brVars, saver, main_run>>

\* sanitize_filename on the arguments of NameArgs
SpecSanitize == InitSaver /\ [][NextSanitize]_vars

InitBrowser ==
  /\ now = StartTime
  /\ BrowserInit /\ RotatorIdle /\ SmartIdle /\ SolverInit /\ FingerprintIdle /\ SaverIdle /\ MainIdle

NextBrowser ==
  \/ navigate /\ UNCHANGED <<now, rotVars, spVars, solver_call, fpVars, saver, san_call, main_run>>
  \/ has_captcha /\ UNCHANGED <<now, rotVars, spVars, solver_call, fpVars, saver, san_call, main_run>>
  \/ get_captcha_site_key /\ UNCHANGED <<now, rotVars, spVars, solver_call, fpVars, saver, san_call, main_run>>
  \/ submit_captcha_solution /\ UNCHANGED <<now, rotVars, spVars, solver_call, fpVars, saver, san_call, main_run>>
  \/ save_complete /\ UNCHANGED <<now, rotVars, spVars, solver_call, fpVars, saver, san_call, main_run>>
  \/ screenshot /\ UNCHANGED <<now, rotVars, spVars, solver_call, fpVars, saver, san_call, main_run>>
  \/ close /\ UNCHANGED <<now, rotVars, spVars, solver_call, fpVars, saver, san_call, main_run>>

InitClose ==
  /\ now = StartTime
  /\ BrowserStarted /\ RotatorIdle /\ SmartIdle /\ SolverInit /\ FingerprintIdle /\ SaverIdle /\ MainIdle

\* StealthBrowser under its public operations, from every state
\* _start_browser can leave
SpecClose == InitClose /\ [][NextBrowser]_vars

\* StealthBrowser under its public operations
SpecBrowser == InitBrowser /\ [][NextBrowser]_vars

InitFingerprint ==
  now = StartTime /\ FingerprintInit /\ RotatorIdle /\ SmartIdle /\ SolverInit /\ BrowserInit /\ SaverIdle /\ MainIdle

\* datetime.now() moves on after each fingerprint it stamps
NextFingerprint ==
  get_fingerprint_for_domain /\ UNCHANGED <<rotVars, spVars, solver_call, brVars, saver, san_call, main_run>>

\* the fingerprint table under get_fingerprint_for_domain
SpecFingerprint == InitFingerprint /\ [][NextFingerprint]_vars

InitSolver ==
  now = StartTime /\ SolverInit /\ RotatorIdle /\ SmartIdle /\ FingerprintIdle /\ BrowserInit /\ SaverIdle /\ MainIdle

NextSolver ==
  \/ solve_start /\ UNCHANGED <<now, rotVars, spVars, fpVars, brVars, saver, san_call, main_run>>
  \/ solve_attempt /\ UNCHANGED <<now, rotVars, spVars, fpVars, brVars, saver, san_call, main_run>>
  \/ report_incorrect_solution
       /\ UNCHANGED <<now, rotVars, spVars, fpVars, brVars, saver, san_call, main_run>>

\* AntiCaptchaSolver under its three solve_* methods
SpecSolver == InitSolver /\ [][NextSolver]_vars

InitRotator ==
  now = StartTime /\ RotatorInit /\ SmartIdle /\ SolverInit /\ FingerprintIdle /\ BrowserInit /\ SaverIdle /\ MainIdle

NextRotator ==
  \/ Tick /\ UNCHANGED <<rotVars, spVars, solver_call, fpVars, brVars, saver, san_call, main_run>>
  \/ add_proxy /\ UNCHANGED <<now, spVars, solver_call, fpVars, brVars, saver, san_call, main_run>>
  \/ get_proxy /\ UNCHANGED <<now, spVars, solver_call, fpVars, brVars, saver, san_call, main_run>>
  \/ rotate_proxy /\ UNCHANGED <<now, spVars, solver_call, fpVars, brVars, saver, san_call, main_run>>
  \/ mark_proxy_failed /\ UNCHANGED <<now, spVars, solver_call, fpVars, brVars, saver, san_call, main_run>>
  \/ reset_failed_proxies /\ UNCHANGED <<now, spVars, solver_call, fpVars, brVars, saver, san_call, main_run>>
  \/ set_rotation_interval /\ UNCHANGED <<now, spVars, solver_call, fpVars, brVars, saver, san_call, main_run>>

NextPool ==
  \/ Tick /\ UNCHANGED <<rotVars, spVars, solver_call, fpVars, brVars, saver, san_call, main_run>>
  \/ add_proxy /\ UNCHANGED <<now, spVars, solver_call, fpVars, brVars, saver, san_call, main_run>>
  \/ remove_proxy /\ UNCHANGED <<now, spVars, solver_call, fpVars, brVars, saver, san_call, main_run>>
  \/ get_proxy /\ UNCHANGED <<now, spVars, solver_call, fpVars, brVars, saver, san_call, main_run>>
  \/ rotate_proxy /\ UNCHANGED <<now, spVars, solver_call, fpVars, brVars, saver, san_call, main_run>>
  \/ mark_proxy_failed /\ UNCHANGED <<now, spVars, solver_call, fpVars, brVars, saver, san_call, main_run>>
  \/ reset_failed_proxies /\ UNCHANGED <<now, spVars, solver_call, fpVars, brVars, saver, san_call, main_run>>

\* CustomProxyRotator under the operations that change the pool, the
\* position and the excluded set, remove_proxy among them
SpecPool == InitRotator /\ [][NextPool]_vars

InitSmart ==
  now = StartTime /\ SmartInit /\ RotatorIdle /\ SolverInit /\ FingerprintIdle /\ BrowserInit /\ SaverIdle /\ MainIdle

NextSmart ==
  \/ Tick /\ UNCHANGED <<rotVars, spVars, solver_call, fpVars, brVars, saver, san_call, main_run>>
  \/ sp_get_proxy /\ UNCHANGED <<now, rotVars, solver_call, fpVars, brVars, saver, san_call, main_run>>
  \/ sp_rotate_proxy /\ UNCHANGED <<now, rotVars, solver_call, fpVars, brVars, saver, san_call, main_run>>
  \/ sp_set_rotation_interval /\ UNCHANGED <<now, rotVars, solver_call, fpVars, brVars, saver, san_call, main_run>>

\* SmartproxyRotator under get_proxy, rotate_proxy and set_rotation_interval
SpecSmart == InitSmart /\ [][NextSmart]_vars

InitMain ==
  /\ now = StartTime
  /\ MainStarted /\ BrowserInit /\ RotatorIdle /\ SmartIdle /\ SolverInit /\ FingerprintIdle
  /\ SaverIdle

NextMain ==
  \/ main_navigate /\ UNCHANGED <<rotVars, spVars, solver_call, fpVars, saver, san_call>>
  \/ main_has_captcha /\ UNCHANGED <<rotVars, spVars, solver_call, fpVars, saver, san_call>>
  \/ main_site_key /\ UNCHANGED <<rotVars, spVars, solver_call, fpVars, saver, san_call>>
  \/ main_solve_start /\ UNCHANGED <<rotVars, spVars, fpVars, brVars, saver, san_call>>
  \/ main_solve_attempt /\ UNCHANGED <<rotVars, spVars, fpVars, brVars, saver, san_call>>
  \/ main_submit /\ UNCHANGED <<rotVars, spVars, solver_call, fpVars, saver, san_call>>
  \/ main_save /\ UNCHANGED <<rotVars, spVars, solver_call, fpVars, saver, san_call>>
  \/ main_screenshot /\ UNCHANGED <<rotVars, spVars, solver_call, fpVars, saver, san_call>>
  \/ main_close /\ UNCHANGED <<rotVars, spVars, solver_call, fpVars, saver, san_call>>

\* one run of main() from the start of the browser to the end of the process
SpecMain == InitMain /\ [][NextMain]_vars

\* CustomProxyRotator under add_proxy, get_proxy, rotate_proxy,
\* mark_proxy_failed, reset_failed_proxies and set_rotation_interval
SpecRotator == InitRotator /\ [][NextRotator]_vars

(***************************************************************************)
(* Properties of CustomProxyRotator                                        *)
(***************************************************************************)
IsGetProxy == rot_call.op \in {"get_proxy", "rotate_proxy"}

\* C1: get_proxy never returns the pool entry at an excluded index while some
\* pool index is not excluded.
C1_NeverReturnsExcluded ==
  (IsGetProxy /\ rot_call.ret.kind = "return")
    => ~(current_index \in failed_proxies /\ WorkingIndices(proxies, failed_proxies) # {})

\* C6: when every index of a non-empty pool is excluded, the next get_proxy
\* returns an entry of the pool, never None.
C6_ResetReturnsPoolEntry ==
  (IsGetProxy /\ Len(proxies) >= 1 /\ Indices(proxies) \subseteq rot_call.pre_failed)
    => /\ rot_call.ret.kind = "return"
       /\ \E i \in Indices(proxies) : rot_call.ret.value = Item(proxies, i)

\* C6 witness: a pool of two with both indices excluded, then a forced call
\* that reset the exclusions and returned an entry
C6_Witness ==
  /\ IsGetProxy
  /\ Len(proxies) >= 2
  /\ Indices(proxies) \subseteq rot_call.pre_failed
  /\ failed_proxies = {}
  /\ rot_call.ret.kind = "return"

(***************************************************************************)
(* Properties of CustomProxyRotator with remove_proxy                      *)
(***************************************************************************)
\* C12: on an empty pool every get_proxy and rotate_proxy call returns None,
\* does not raise, and leaves current_index, last_rotation and the excluded
\* set as they were.
C12_EmptyPoolGivesNone ==
  [][(proxies = <<>> /\ (get_proxy \/ rotate_proxy))
       => /\ rot_call'.ret = None
          /\ UNCHANGED <<current_index, last_rotation, failed_proxies>>]_vars

\* C12 witness: a pool emptied by remove_proxy that still holds a position and
\* an exclusion, and was then asked for a proxy
C12_Witness ==
  /\ proxies = <<>>
  /\ rot_call.op \in {"get_proxy", "rotate_proxy"}
  /\ rot_call.ret = None
  /\ current_index >= 0
  /\ failed_proxies # {}

\* C19: current_index is -1 or an index of the pool, and get_proxy on a
\* non-empty pool does not raise.
C19_CurrentIndexInPool ==
  /\ current_index = -1 \/ current_index \in Indices(proxies)
  /\ (IsGetProxy /\ proxies # <<>>) => rot_call.ret.kind # "raise"

\* C20: the excluded set holds only indices of the pool, and
\* get_working_proxy_count() is the number of pool entries not excluded, so
\* it lies between 0 and get_proxy_count().
C20_WorkingCountCountsWorking ==
  /\ failed_proxies \subseteq Indices(proxies)
  /\ get_working_proxy_count(proxies, failed_proxies)
       = Cardinality(WorkingIndices(proxies, failed_proxies))
  /\ 0 <= get_working_proxy_count(proxies, failed_proxies)
  /\ get_working_proxy_count(proxies, failed_proxies) <= get_proxy_count(proxies)

(***************************************************************************)
(* Properties of SmartproxyRotator                                         *)
(***************************************************************************)
\* C7 as stated: the unforced calls made within the interval, with no forced
\* call between them, all return the same session id.
C7_SameSessionBetweenForced == Cardinality(sp_ids_unforced) <= 1

\* C7 as amended: the unforced calls made within the interval, with no call
\* between them that was forced or made after the interval elapsed, all
\* return the same session id.
C7_SameSessionWithinWindow == Cardinality(sp_ids_window) <= 1

\* C7 witness: a second unforced call within the interval returned the
\* session id the call before it had left
C7_Witness ==
  /\ sp_call.op = "get_proxy"
  /\ ~sp_call.force_new
  /\ sp_call.pre_session # None
  /\ sp_call.pre_elapsed > 0
  /\ sp_call.pre_elapsed <= sp_call.pre_interval
  /\ sp_ids_window = {sp_call.pre_session}
  /\ sp_call.ret.value.username[3] = sp_call.pre_session.value

\* a get_proxy call, direct or through rotate_proxy, has returned
IsSpGetProxy == sp_call.op \in {"get_proxy", "rotate_proxy"}

\* C13: the server URL of every descriptor get_proxy returns is
\* http://<username>-session-<id>:<password>@<endpoint>:<port>, with
\* -country-<code> before -session- when a country is configured, where <id>
\* is session_id as the call leaves it; the username field carries that id.
C13_UrlEmbedsCurrentSession ==
  IsSpGetProxy =>
    LET d == sp_call.ret.value
        user == IF sp_config.country = None THEN <<sp_config.username>>
                ELSE <<sp_config.username, "-country-", sp_config.country.value>>
    IN /\ sp_call.ret.kind = "return"
       /\ sp_session_id # None
       /\ d.server = <<"http://">> \o user \o <<"-session-", sp_session_id.value, ":",
                        sp_config.password, "@", sp_config.endpoint, ":",
                        ToString(sp_config.port)>>
       /\ d.username[Len(d.username)] = sp_session_id.value
       /\ d.username[Len(d.username) - 1] = "-session-"

\* C13 witness: a rotator with a country returned a descriptor for a session
\* that replaced an earlier one
C13_Witness ==
  /\ IsSpGetProxy
  /\ sp_config.country # None
  /\ sp_call.pre_session # None
  /\ sp_call.pre_session # sp_session_id
  /\ sp_call.ret.value.server[6] = sp_session_id.value

\* the text a sequence of parts spells
RECURSIVE Joined(_)
Joined(parts) == IF parts = <<>> THEN "" ELSE Head(parts) \o Joined(Tail(parts))

\* the place of the first ":" part after the scheme, and of the "@" part
UrlColon(url) == CHOOSE k \in 2 .. Len(url) : url[k] = ":" /\ \A j \in 2 .. k - 1 : url[j] # ":"
UrlAt(url) == CHOOSE k \in 2 .. Len(url) : url[k] = "@" /\ \A j \in 2 .. k - 1 : url[j] # "@"

\* the user part of a server URL, between "http://" and the ":" before the
\* password, and the password, between that ":" and the "@"
UrlUser(url) == Joined(SubSeq(url, 2, UrlColon(url) - 1))
UrlPassword(url) == Joined(SubSeq(url, UrlColon(url) + 1, UrlAt(url) - 1))

\* C24: in every descriptor get_proxy returns, the username field is the
\* user part of the server URL and the password field is the password of
\* the server URL, with and without a configured country.
C24_FieldsMatchServerUrl ==
  IsSpGetProxy =>
    LET d == sp_call.ret.value
    IN /\ d.server[1] = "http://"
       /\ Joined(d.username) = UrlUser(d.server)
       /\ d.password = UrlPassword(d.server)

\* the decimal strings of the integers random.randint(10000, 99999) can draw
SessionStrings == {ToString(n) : n \in SessionLow .. SessionHigh}

\* C16: get_proxy assigns session_id and last_rotation exactly when force_new
\* is true, session_id is None or more than rotation_interval has passed
\* since last_rotation: then session_id becomes the decimal string of an
\* integer in 10000..99999 and last_rotation the current time, and otherwise
\* both stay.  session_id is always None or such a string, and the first
\* get_proxy of a fresh rotator mints one.
C16_RotatesExactlyAtGate ==
  /\ [](sp_session_id = None \/ (sp_session_id.kind = "str" /\ sp_session_id.value \in SessionStrings))
  /\ [][(sp_get_proxy \/ sp_rotate_proxy) =>
          IF \/ sp_call'.force_new
             \/ sp_session_id = None
             \/ (now - sp_last_rotation) > sp_rotation_interval
          THEN /\ sp_session_id'.kind = "str"
               /\ sp_session_id'.value \in SessionStrings
               /\ sp_last_rotation' = now
          ELSE UNCHANGED <<sp_session_id, sp_last_rotation>>]_vars

\* C16 witness: an unforced call on a rotator with a session, made after the
\* interval had passed, which rotated
C16_Witness ==
  /\ sp_call.op = "get_proxy"
  /\ ~sp_call.force_new
  /\ sp_call.pre_session # None
  /\ sp_call.pre_elapsed > sp_call.pre_interval
  /\ sp_last_rotation = now
  /\ sp_session_id.value \in SessionStrings

(***************************************************************************)
(* Properties of AntiCaptchaSolver                                         *)
(***************************************************************************)
\* a solve_* call has ended
IsSolve == solver_call.pc = "done"

\* the events of a kind in the trace, in order
RECURSIVE EventsOf(_, _)
EventsOf(kind, trace) ==
  IF trace = <<>> THEN <<>>
  ELSE (IF Head(trace)[1] = kind THEN <<Head(trace)[2]>> ELSE <<>>) \o EventsOf(kind, Tail(trace))

\* the attempts (1-based) that yielded a solution
Solved == {k \in 1 .. Len(solver_call.outcomes) : solver_call.outcomes[k] \in Tokens}
FirstSolved == CHOOSE k \in Solved : \A j \in Solved : k <= j
\* the sleeps 5*1, ..., 5*n
Backoff(n) == [i \in 1 .. n |-> 5 * i]

\* C5: at most N invocations of the remote solver; a success at attempt k
\* returns that attempt's token after sleeps 5*1..5*(k-1) and nothing follows
\* the successful invocation; N failures sleep 5*1..5*(N-1), with no sleep
\* after the last attempt, and return None.
C5_BoundedRetryWithLinearBackoff ==
  IsSolve =>
    LET N == solver_call.max_attempts
        trace == solver_call.trace
    IN /\ Len(EventsOf("solve", trace)) <= N
       /\ Solved # {} =>
            /\ solver_call.ret = Return(solver_call.outcomes[FirstSolved])
            /\ EventsOf("sleep", trace) = Backoff(FirstSolved - 1)
            /\ trace[Len(trace)] = <<"solve", FirstSolved>>
       /\ (Solved = {} /\ N >= 1) =>
            /\ solver_call.ret = None
            /\ EventsOf("sleep", trace) = Backoff(N - 1)
            /\ trace[Len(trace)][1] # "sleep"
       /\ \A i \in 1 .. Len(trace) :
            trace[i][1] = "sleep" =>
              /\ i > 1 /\ i < Len(trace)
              /\ trace[i - 1][1] \in {"attempt", "solve"}
              /\ trace[i - 1][2] * 5 = trace[i][2]
              /\ trace[i + 1] = <<"attempt", trace[i - 1][2] + 1>>

\* C5 witness: three attempts, the third the first to succeed, after sleeps
\* of 5 and 10 seconds
C5_Witness ==
  /\ IsSolve
  /\ solver_call.max_attempts = 3
  /\ Solved = {3}
  /\ EventsOf("sleep", solver_call.trace) = <<5, 10>>
  /\ solver_call.ret.kind = "return"

Raising == {"raise_construct", "raise_configure", "raise_solve"}
RaisedAt == {k \in 1 .. Len(solver_call.outcomes) : solver_call.outcomes[k] \in Raising}

\* C10: an exception of an attempt never leaves solve_*: the call returns a
\* token or None, the attempt after a raising one is started, and the sleeps
\* are those of a run in which the raising attempts returned no solution.
C10_AttemptExceptionsAreFailedAttempts ==
  (IsSolve /\ RaisedAt # {}) =>
    LET N == solver_call.max_attempts
        last == IF Solved # {} THEN FirstSolved ELSE N
        trace == solver_call.trace
    IN /\ solver_call.ret.kind \in {"return", "None"}
       /\ Len(solver_call.outcomes) = last
       /\ EventsOf("attempt", trace) = [i \in 1 .. last |-> i]
       /\ EventsOf("sleep", trace) = Backoff(IF last = 0 THEN 0 ELSE last - 1)
       /\ solver_call.ret.kind = "return" <=> Solved # {}

\* C10 witness: the first attempt raised in the remote call, the second
\* raised while the solver was built, the third returned a token
C10_Witness ==
  /\ IsSolve
  /\ solver_call.max_attempts = 3
  /\ solver_call.outcomes[1] = "raise_solve"
  /\ solver_call.outcomes[2] \in {"raise_construct", "raise_configure"}
  /\ solver_call.outcomes[3] \in Tokens
  /\ solver_call.ret = Return(solver_call.outcomes[3])
  /\ EventsOf("sleep", solver_call.trace) = <<5, 10>>

\* report_incorrect_solution has returned or raised
IsReport == solver_call.pc = "reported"

\* the remote report calls made under the last call
ReportsIssued ==
  {solver_call.trace[k][1] : k \in 1 .. Len(solver_call.trace)}
    \cap {"report_incorrect_recaptcha", "report_incorrect_hcaptcha"}

\* C15: report_incorrect_solution does not raise for any captcha_type; for
\* 'recaptcha' and 'hcaptcha' in any letter case, when the solver object
\* could be built, it issues the matching remote report and no other, also
\* when that report raises; for 'turnstile' and any other value it issues no
\* remote report.
C15_ReportNeverRaises ==
  IsReport =>
    LET captcha_type == solver_call.outcomes[1]
        fails == solver_call.outcomes[2]
        key == IF captcha_type.kind = "text" THEN Lower(captcha_type.value) ELSE <<>>
    IN /\ solver_call.ret = None
       /\ (key = <<"r", "e", "c", "a", "p", "t", "c", "h", "a">> /\ "construct" \notin fails)
            => ReportsIssued = {"report_incorrect_recaptcha"}
       /\ (key = <<"h", "c", "a", "p", "t", "c", "h", "a">> /\ "construct" \notin fails)
            => ReportsIssued = {"report_incorrect_hcaptcha"}
       /\ key \notin {<<"r", "e", "c", "a", "p", "t", "c", "h", "a">>, <<"h", "c", "a", "p", "t", "c", "h", "a">>} => ReportsIssued = {}

\* C15 witness: 'HCAPTCHA' was reported, the remote report raised, and the
\* call returned
C15_Witness ==
  /\ IsReport
  /\ solver_call.outcomes[1] = Text(<<"H", "C", "A", "P", "T", "C", "H", "A">>)
  /\ solver_call.outcomes[2] = {"report"}
  /\ ReportsIssued = {"report_incorrect_hcaptcha"}
  /\ solver_call.ret = None

(***************************************************************************)
(* Properties of the fingerprint table                                     *)
(***************************************************************************)
\* two consecutive calls for the same domain
TwoCallsSameDomain ==
  /\ fp_prev.ret.kind = "return"
  /\ fp_call.ret.kind = "return"
  /\ fp_prev.domain = fp_call.domain

Persisted(file) == IF file.kind = "json" THEN JsonLoad(file.text) ELSE <<>>

\* C21: a call get_fingerprint_for_domain(D, table) keeps every record the
\* table held, in place and unaltered, and leaves at most one record per
\* domain: a call that finds D leaves the file alone, and a call that does
\* not find D and writes the table leaves the previous records followed by
\* the one new record for D, also when the read failed.
C21_CallKeepsPersistedRecords ==
  [][get_fingerprint_for_domain =>
       LET before == Persisted(fp_file)
           after == Persisted(fp_file')
       IN /\ Len(before) <= Len(after)
          /\ \A i \in 1 .. Len(before) : after[i] = before[i]
          /\ \A d \in Domains : Cardinality(Matches(after, d)) <= 1
          /\ fp_call'.found => fp_file' = fp_file
          /\ (~fp_call'.found /\ fp_call'.write = "ok")
               => after = Append(before, fp_call'.ret.value)]_vars

\* C22: when a call creates a fingerprint for a new domain and persisting
\* the table fails, the call returns the fresh fingerprint stamped with the
\* domain and a creation time, and the file keeps the records it had.
C22_FailedSaveReturnsFreshAndKeepsFile ==
  [][(/\ get_fingerprint_for_domain
      /\ ~fp_call'.found
      /\ fp_call'.write # "ok")
       => /\ fp_call'.ret.kind = "return"
          /\ fp_call'.ret.value.domain = fp_call'.domain
          /\ fp_call'.ret.value.created_at = IsoFormat(now)
          /\ Persisted(fp_file') = Persisted(fp_file)]_vars

(***************************************************************************)
(* Properties of StealthBrowser and the detection heuristics               *)
(***************************************************************************)
\* C2: when close() has ended, by returning or by raising, the release of
\* every handle that was set has been attempted.
C2_CloseAttemptsEveryRelease ==
  br_call.op = "close" =>
    \A i \in 1 .. Len(Handles) :
      br_handles[Handles[i]] => \E k \in 1 .. Len(br_call.released) : br_call.released[k] = Handles[i]

\* C3: on a page whose only key is data-sitekey="abc123" on the .g-recaptcha
\* element extract_captcha_sitekey returns "abc123", and on a page whose only
\* key is in grecaptcha.render('body', {sitekey: "xyz789"}) it returns
\* "xyz789".
C3_ExtractsSitekeyOfBothExamples ==
  (br_call.op = "get_captcha_site_key" /\ br_call.fails = {}) =>
    /\ br_call.doc = DocRecaptchaDiv => br_call.ret = Return(KeyAbc123)
    /\ br_call.doc = DocRenderCall => br_call.ret = Return(KeyXyz789)

\* C17: in extract_captcha_sitekey a lookup that raises stops only itself:
\* the result is the match of the first lookup, in the order .g-recaptcha
\* container, text patterns, .h-captcha container, .cf-turnstile container,
\* that does not raise and matches, and None when there is none.
C17_EveryLookupGuarded ==
  br_call.op = "get_captcha_site_key" =>
    LET doc == br_call.doc
        fails == br_call.fails
        re == ContainerLookup(doc, ".g-recaptcha", doc.recaptcha, fails)
        text == IF "content" \in fails THEN None ELSE ContentLookups(doc.html)
        hc == ContainerLookup(doc, ".h-captcha", doc.hcaptcha, fails)
        tu == ContainerLookup(doc, ".cf-turnstile", doc.turnstile, fails)
    IN br_call.ret = IF re.end = "return" THEN Return(re.value)
                     ELSE IF text # None THEN Return(text.value)
                     ELSE IF hc.end = "return" THEN Return(hc.value)
                     ELSE IF tu.end = "return" THEN Return(tu.value)
                     ELSE None

\* the handles that are set, in the order page, context, browser, engine
SetHandles == SelectSeq(Handles, LAMBDA h : br_handles[h])

\* C18: close() releases the handles that are set in the order page, context,
\* browser, engine: what it has attempted is a beginning of that order
\* without the unset handles, all of it when no release raised, and up to
\* the release that raised otherwise.
C18_ReleasesInOrder ==
  br_call.op = "close" =>
    LET released == br_call.released
    IN /\ Len(released) <= Len(SetHandles)
       /\ released = SubSeq(SetHandles, 1, Len(released))
       /\ br_call.ret = None => released = SetHandles
       /\ br_call.ret # None => br_call.fails = {released[Len(released)]}

\* C18 witness: close() on a browser whose page and context are unset
\* released the browser and then the engine
C18_Witness ==
  /\ br_call.op = "close"
  /\ ~br_handles.page /\ ~br_handles.context
  /\ br_call.released = <<"browser", "playwright">>
  /\ br_call.ret = None

\* the operations that report on the page
ReportingOps ==
  {"navigate", "has_captcha", "get_captcha_site_key", "submit_captcha_solution",
   "save_complete", "screenshot"}

\* C8: no operation that reports on the page raises, whatever page operation
\* fails under it; has_captcha returns a boolean also when a selector query
\* or the read of the page content fails.
C8_OperationsReturnSentinels ==
  br_call.op \in ReportingOps =>
    /\ br_call.ret.kind \in {"return", "None"}
    /\ br_call.op = "has_captcha" => (br_call.ret.kind = "return" /\ br_call.ret.value \in BOOLEAN)

\* C11: navigate never raises; it returns True exactly when neither the
\* navigation nor the scroll after it raised, and False when either did, a
\* navigation timeout included.
C11_NavigateReturnsSuccessBoolean ==
  br_call.op = "navigate" =>
    /\ br_call.ret.kind = "return"
    /\ br_call.ret.value = (br_call.fails = {})

C11_Witness ==
  /\ br_call.op = "navigate"
  /\ br_call.fails = {"goto_timeout"}
  /\ br_call.ret = Return(FALSE)

\* sanitize_filename has been called
IsSanitize == san_call.ret.kind = "return"

\* C14: sanitize_filename returns a non-empty string of at most 100
\* characters; an input of at most 100 characters comes back with each of
\* \ / * ? : " < > | replaced by an underscore and nothing else changed, a
\* longer one as its first 97 characters so replaced followed by '...'; an
\* empty or all-whitespace input gives 'webpage'.
C14_SanitizedName ==
  IsSanitize =>
    LET in == san_call.filename
        out == san_call.ret.value
        replaced == [i \in 1 .. Len(in) |->
                       IF in[i] \in {"\\", "/", "*", "?", ":", "\"", "<", ">", "|"}
                       THEN "_" ELSE in[i]]
        blank == \A i \in 1 .. Len(in) : in[i] \in Spaces
    IN /\ out # <<>>
       /\ Len(out) <= 100
       /\ blank => out = <<"w", "e", "b", "p", "a", "g", "e">>
       /\ (~blank /\ Len(in) <= 100) => out = replaced
       /\ Len(in) > 100 => out = SubSeq(replaced, 1, 97) \o <<".", ".", ".">>

(***************************************************************************)
(* Properties of save_page_complete                                        *)
(***************************************************************************)
\* the downloads of the save that did not bring a local path
FailedDownloads ==
  {k \in 1 .. Len(saver.downloads) : saver.downloads[k].outcome # "ok"}

\* the save went through its three loops and wrote the file
SaveWritten == saver.pc = "done" /\ saver.file # None

\* C9: when a download fails during a save whose own steps succeed, every
\* reference of the page is still visited, each failed reference stands in
\* the HTML written as the string it was in the page, the main HTML file is
\* written and its path is returned.
C9_FailedDownloadLeavesReference ==
  (SaveWritten /\ FailedDownloads # {}) =>
    /\ saver.ret = Return(MainFileName)
    /\ \A k \in 1 .. Len(saver.original) :
         (\E pass \in {"css", "js", "img"} : PatternMatches(pass, saver.original[k]))
           => \E d \in 1 .. Len(saver.downloads) : saver.downloads[d].piece = k
    /\ \A d \in FailedDownloads :
         saver.file.value[saver.downloads[d].piece].text
           = saver.original[saver.downloads[d].piece].text

\* the outcomes of the downloads of the save
DownloadsSeen == {saver.downloads[k].outcome : k \in 1 .. Len(saver.downloads)}

\* C23: during save_page_complete resources are fetched one at a time: a
\* throwaway page is open only inside the download that opened it, it is
\* closed on success, on a not-ok response and on a navigation error before
\* the next one is opened, so at most one is open at any moment and none is
\* open between downloads or when the save returns.
C23_OneThrowawayPageAtATime ==
  /\ [](/\ saver.pages \in {0, 1}
        /\ (saver.pages = 1) <=> saver.in_with
        /\ saver.pc \in {"idle", "write", "done"} => saver.pages = 0)
  /\ [][new_resource_page => (saver.pages = 0 /\ saver.pages' = 1)]_vars

\* C23 witness: a save that returned after three downloads, one fetched,
\* one answered not-ok and one whose navigation raised, with no page open
C23_Witness ==
  /\ saver.pc = "done"
  /\ saver.ret = Return(MainFileName)
  /\ Len(saver.downloads) = 3
  /\ DownloadsSeen = {"ok", "not_ok", "goto_raises"}
  /\ saver.pages = 0
  /\ ~saver.in_with

(***************************************************************************)
(* Properties of main()                                                    *)
(***************************************************************************)
\* C25: once the browser has been started, every way main() ends, failure
\* of the navigation, no solver, no site key, no solution, completion or an
\* error raised by a browser operation, has called browser.close() exactly
\* once, and the page is saved only when no CAPTCHA was detected or a
\* solution was obtained.
C25_EveryEndClosesOnce ==
  /\ main_run.pc = "exited" => main_run.closes = 1
  /\ main_run.closes <= 1
  /\ main_run.saves > 0 => (~main_run.detected \/ main_run.solution # None)

====
